---- MODULE Spec2Model ----
(***************************************************************************)
(* Query subsystem of the posts backend: parseQueryFromRequest,            *)
(* validateQueryParams, buildSequelizeQuery and the posts list handler.    *)
(*                                                                         *)
(* JavaScript strings are sequences of tokens, so that concatenation,      *)
(* lower-casing and substring tests are computed and not assumed.          *)
(* JavaScript objects are functions whose domain is the set of keys that   *)
(* are present; a key holding undefined is an absent key.                  *)
(***************************************************************************)
EXTENDS Integers, Sequences, FiniteSets, TLC

\* ------------------------------------------------------------------ objects
Has(o, k) == k \in DOMAIN o
Del(o, k) == [x \in DOMAIN o \ {k} |-> o[x]]
Put(o, k, v) == [x \in DOMAIN o \cup {k} |-> IF x = k THEN v ELSE o[x]]
EmptyObj == <<>>

\* Object.keys / Object.entries: the keys of an object in one fixed order
RECURSIVE KeysOf(_)
KeysOf(S) ==
  IF S = {} THEN <<>>
  ELSE LET k == CHOOSE x \in S : TRUE IN <<k>> \o KeysOf(S \ {k})

\* Array.prototype.includes
Includes(arr, x) == \E i \in 1..Len(arr) : arr[i] = x

\* modify the object found at `path` below o: delete key, or set key to val
RECURSIVE ModAt(_, _, _, _, _)
ModAt(o, path, del, key, val) ==
  IF path = <<>>
  THEN IF del THEN Del(o, key) ELSE Put(o, key, val)
  ELSE Put(o, Head(path), ModAt(o[Head(path)], Tail(path), del, key, val))

\* ------------------------------------------------------------------ strings
\* String.prototype.toLowerCase, token by token
LowerTok_Same(t) == t

LowerTok(t) ==
  CASE t = "ASC" -> "asc"
    [] t = "Asc" -> "asc"
    [] t = "DESC" -> "desc"
    [] t = "Desc" -> "desc"
    [] t = "Not Found" -> "not found"
    [] t = "NOT FOUND" -> "not found"
    [] OTHER -> t
toLowerCase(s) == [i \in 1..Len(s) |-> LowerTok(s[i])]

\* String.prototype.toUpperCase, token by token
UpperTok(t) ==
  CASE t = "asc" -> "ASC"
    [] t = "Asc" -> "ASC"
    [] t = "desc" -> "DESC"
    [] t = "Desc" -> "DESC"
    [] OTHER -> t
toUpperCase(s) == [i \in 1..Len(s) |-> UpperTok(s[i])]

\* String.prototype.split on a separator token
RECURSIVE split(_, _, _)
split(s, sep, cur) ==
  IF s = <<>> THEN <<cur>>
  ELSE IF Head(s) = sep THEN <<cur>> \o split(Tail(s), sep, <<>>)
  ELSE split(Tail(s), sep, Append(cur, Head(s)))

\* String.prototype.includes
includes(s, part) ==
  \E i \in 0..(Len(s) - Len(part)) : SubSeq(s, i + 1, i + Len(part)) = part

\* Array.prototype.join
RECURSIVE join(_, _)
join(arr, sep) ==
  IF arr = <<>> THEN <<>>
  ELSE IF Len(arr) = 1 THEN arr[1]
  ELSE arr[1] \o sep \o join(Tail(arr), sep)

\* ------------------------------------------------------------------ values
\* a filter value: a string, a number, an array of strings, an array that
\* holds an object, or undefined
Str(s) == [kind |-> "str", items |-> <<s>>]
Num(s) == [kind |-> "num", items |-> <<s>>]
Arr(ss) == [kind |-> "arr", items |-> ss]
ObjArr(ss) == [kind |-> "objarr", items |-> ss]
Undef == [kind |-> "undef", items |-> <<>>]

isArray(v) == v.kind \in {"arr", "objarr"}
isStringArray(v) == v.kind = "arr"
isPrimitiveArray(v) == v.kind = "arr"

\* ------------------------------------------------------------- validator
clamp_NoUpper(n, min, max) == IF min > n THEN min ELSE n
clamp(n, min, max) ==
  LET m == IF max < n THEN max ELSE n IN IF min > m THEN min ELSE m

isRangeOp(op) == op \in {"gte", "lte", "gt", "lt", "between"}

\* JSON.parse(JSON.stringify(filters)): keys that hold undefined are dropped
JsonCopyBucket(b) == [k \in {x \in DOMAIN b : b[x].kind # "undef"} |-> b[k]]
JsonCopyRange(r) == [f \in DOMAIN r |-> JsonCopyBucket(r[f])]
JsonCopyFilters(f) ==
  [b \in DOMAIN f |->
     IF b = "range" THEN JsonCopyRange(f[b])
     ELSE IF b = "raw" THEN f[b]
     ELSE JsonCopyBucket(f[b])]

\* the sanitized literal: which objects of the copy are new objects. The
\* names not listed in `shared` are objects owned by the copy alone.
CopyOpts(baseOpts) ==
  [k \in DOMAIN baseOpts |->
     IF k = "filters" THEN JsonCopyFilters(baseOpts[k]) ELSE baseOpts[k]]
\* the arrays below the spread copies are the caller's own arrays
CopyShared_Shallow ==
  {"sort.allowlist", "search.columns", "defaultOrder.items",
   "equals", "contains", "range", "rangeEntry"}
CopyShared == {"sort.allowlist", "search.columns", "defaultOrder.items"}

\* one assignment or delete of the validator. `name` is the object written
\* to; when the caller's intent holds the same object the caller sees it.
Write(st, name, path, del, key, val) ==
  [st EXCEPT !.san = ModAt(@, path, del, key, val),
             !.base = IF name \in st.shared
                      THEN ModAt(@, path, del, key, val) ELSE @]
Push_First(st, msg) ==
  IF st.errors = <<>> THEN [st EXCEPT !.errors = Append(@, msg)] ELSE st
Push(st, msg) == [st EXCEPT !.errors = Append(@, msg)]

DefaultPageSize == 20
DefaultMaxPageSize == 200
DefaultMinPageSize == 1

ValidatePagination(st, cfg) ==
  LET maxPS == IF Has(cfg, "maxPageSize") THEN cfg.maxPageSize ELSE DefaultMaxPageSize
      minPS == IF Has(cfg, "minPageSize") THEN cfg.minPageSize ELSE DefaultMinPageSize
  IN IF ~Has(st.san, "pagination") THEN st
     ELSE LET p == st.san.pagination
              ps == IF Has(p, "pageSize") THEN p.pageSize ELSE DefaultPageSize
              pg == IF Has(p, "page") THEN p.page ELSE 1
          IN IF Has(p, "mode") /\ p.mode = "cursor"
             THEN Write(st, "pagination", <<"pagination">>, FALSE, "pageSize",
                        clamp(ps, minPS, maxPS))
             ELSE Write(Write(st, "pagination", <<"pagination">>, FALSE, "page",
                              IF pg > 1 THEN pg ELSE 1),
                        "pagination", <<"pagination">>, FALSE, "pageSize",
                        clamp(ps, minPS, maxPS))

ValidateSortBy_NoPolicy(st, cfg) ==
  IF Has(st.san, "sort") /\ Has(st.san.sort, "sortBy") /\ st.san.sort.sortBy # <<>>
     /\ Has(cfg, "sortColumns")
  THEN IF ~Includes(cfg.sortColumns, st.san.sort.sortBy)
       THEN Push(st, <<"Invalid sort column: ">> \o st.san.sort.sortBy)
       ELSE st
  ELSE st

ValidateSortBy(st, cfg) ==
  IF Has(st.san, "sort") /\ Has(st.san.sort, "sortBy") /\ st.san.sort.sortBy # <<>>
  THEN LET allowed == IF Has(cfg, "sortColumns") THEN cfg.sortColumns ELSE <<>>
       IN IF ~Includes(allowed, st.san.sort.sortBy)
          THEN Push(st, <<"Invalid sort column: ">> \o st.san.sort.sortBy)
          ELSE st
  ELSE st

ValidateSortDir_Upper(st, cfg) ==
  IF Has(st.san, "sort") /\ Has(st.san.sort, "sortDir") /\ st.san.sort.sortDir # <<>>
  THEN LET dir == st.san.sort.sortDir
       IN IF Has(cfg, "sortDir") /\ ~Includes(cfg.sortDir, dir)
          THEN Push(st, <<"Invalid sort direction: ">> \o st.san.sort.sortDir)
          ELSE IF dir # <<"asc">> /\ dir # <<"desc">>
          THEN Push(st, <<"Invalid sort direction: ">> \o st.san.sort.sortDir)
          ELSE Write(st, "sort", <<"sort">>, FALSE, "sortDir", toUpperCase(dir))
  ELSE st

ValidateSortDir(st, cfg) ==
  IF Has(st.san, "sort") /\ Has(st.san.sort, "sortDir") /\ st.san.sort.sortDir # <<>>
  THEN LET dir == toLowerCase(st.san.sort.sortDir)
       IN IF Has(cfg, "sortDir") /\ ~Includes(cfg.sortDir, dir)
          THEN Push(st, <<"Invalid sort direction: ">> \o st.san.sort.sortDir)
          ELSE IF dir # <<"asc">> /\ dir # <<"desc">>
          THEN Push(st, <<"Invalid sort direction: ">> \o st.san.sort.sortDir)
          ELSE Write(st, "sort", <<"sort">>, FALSE, "sortDir", dir)
  ELSE st

ValidateAllowlist(st) ==
  IF Has(st.san, "sort")
  THEN Write(st, "sort", <<"sort">>, TRUE, "allowlist", <<>>)
  ELSE st

ValidateSearch_Keep(st, cfg) ==
  IF Has(st.san, "search") /\ Has(st.san.search, "q") /\ st.san.search.q # <<>>
  THEN IF ~Has(cfg, "searchColumns") \/ Len(cfg.searchColumns) = 0
       THEN Write(st, "search", <<"search">>, FALSE, "columns", <<>>)
       ELSE LET requested == IF Has(st.san.search, "columns")
                             THEN st.san.search.columns ELSE <<>>
                bad == SelectSeq(requested, LAMBDA c : ~Includes(cfg.searchColumns, c))
                good == SelectSeq(requested, LAMBDA c : Includes(cfg.searchColumns, c))
                st1 == IF Len(bad) > 0
                       THEN Push(st, <<"Invalid search columns: ">> \o join(bad, <<", ">>))
                       ELSE st
            IN Write(st1, "search", <<"search">>, FALSE, "columns", good)
  ELSE IF Has(st.san, "search")
  THEN Write(st, "root", <<>>, TRUE, "search", <<>>)
  ELSE st

ValidateSearch(st, cfg) ==
  IF Has(st.san, "search") /\ Has(st.san.search, "q") /\ st.san.search.q # <<>>
  THEN IF ~Has(cfg, "searchColumns") \/ Len(cfg.searchColumns) = 0
       THEN Write(st, "search", <<"search">>, FALSE, "columns", <<>>)
       ELSE LET requested == IF Has(st.san.search, "columns")
                             THEN st.san.search.columns ELSE <<>>
            IN IF Len(requested) = 0
               THEN Write(st, "search", <<"search">>, FALSE, "columns", cfg.searchColumns)
               ELSE LET bad == SelectSeq(requested, LAMBDA c : ~Includes(cfg.searchColumns, c))
                        good == SelectSeq(requested, LAMBDA c : Includes(cfg.searchColumns, c))
                        st1 == IF Len(bad) > 0
                               THEN Push(st, <<"Invalid search columns: ">> \o join(bad, <<", ">>))
                               ELSE st
                    IN Write(st1, "search", <<"search">>, FALSE, "columns", good)
  ELSE IF Has(st.san, "search")
  THEN Write(st, "root", <<>>, TRUE, "search", <<>>)
  ELSE st

\* byField.get(field): the last rule of the list for the field, if any
RulesFor(cfg, field) ==
  IF Has(cfg, "filters") THEN SelectSeq(cfg.filters, LAMBDA r : r.field = field) ELSE <<>>
HasRule(cfg, field) == Len(RulesFor(cfg, field)) > 0
RuleOf(cfg, field) == RulesFor(cfg, field)[Len(RulesFor(cfg, field))]

\* a custom validator of a rule, applied to a value
RunValidator(name, v) == name = "accept"
HasValidator(rule, op) == Has(rule, "validate") /\ Has(rule.validate, op)

\* !rule || !rule.allow.<op>, negated
EqualsAllowed_AnyRule(cfg, field) == HasRule(cfg, field)
EqualsAllowed(cfg, field) ==
  HasRule(cfg, field)
  /\ Has(RuleOf(cfg, field).allow, "equals") /\ RuleOf(cfg, field).allow.equals
ContainsAllowed(cfg, field) ==
  HasRule(cfg, field)
  /\ Has(RuleOf(cfg, field).allow, "contains") /\ RuleOf(cfg, field).allow.contains
RangeAllowed(cfg, field) ==
  HasRule(cfg, field) /\ Has(RuleOf(cfg, field).allow, "range")

NotAllowedMsg(field, op) ==
  <<"Filtering not allowed on field \"">> \o field \o <<"\" with operator \"", op, "\"">>

RECURSIVE ValidateEquals(_, _, _, _)
ValidateEquals(st, cfg, entries, keys) ==
  IF keys = <<>> THEN st
  ELSE LET field == Head(keys)
           val == entries[field]
       IN IF ~EqualsAllowed(cfg, field)
          THEN ValidateEquals(
                 Write(Push(st, NotAllowedMsg(field, "equals")),
                       "equals", <<"filters", "equals">>, TRUE, field, <<>>),
                 cfg, entries, Tail(keys))
          ELSE LET rule == RuleOf(cfg, field)
                   ok == IF isArray(val) THEN isPrimitiveArray(val) ELSE TRUE
                   st1 == IF ~ok THEN Push(st, <<"Invalid value for equals(">> \o field \o <<")">>)
                          ELSE st
                   st2 == IF HasValidator(rule, "equals")
                             /\ ~RunValidator(rule.validate.equals, val)
                          THEN Push(st1, <<"Custom validation failed for equals(">> \o field \o <<")">>)
                          ELSE st1
               IN ValidateEquals(st2, cfg, entries, Tail(keys))

RECURSIVE ValidateContains(_, _, _, _)
ValidateContains(st, cfg, entries, keys) ==
  IF keys = <<>> THEN st
  ELSE LET field == Head(keys)
           val == entries[field]
       IN IF ~ContainsAllowed(cfg, field)
          THEN ValidateContains(
                 Write(Push(st, NotAllowedMsg(field, "contains")),
                       "contains", <<"filters", "contains">>, TRUE, field, <<>>),
                 cfg, entries, Tail(keys))
          ELSE LET rule == RuleOf(cfg, field)
                   ok == val.kind = "str" \/ isStringArray(val)
                   st1 == IF ~ok THEN Push(st, <<"Invalid value for contains(">> \o field \o <<")">>)
                          ELSE st
                   st2 == IF HasValidator(rule, "contains")
                             /\ ~RunValidator(rule.validate.contains, val)
                          THEN Push(st1, <<"Custom validation failed for contains(">> \o field \o <<")">>)
                          ELSE st1
               IN ValidateContains(st2, cfg, entries, Tail(keys))

\* the inner loop over the sub-operators of one range entry; obj is the
\* object held by sanitized.filters.range[field]
RangeOpError_NoArity(allowedOps, field, op, v) ==
  IF ~isRangeOp(op)
  THEN <<"Invalid range operator for ">> \o field \o <<": ", op>>
  ELSE IF ~(Has(allowedOps, op) /\ allowedOps[op])
  THEN <<"Range operator not allowed for ">> \o field \o <<": ", op>>
  ELSE <<>>

\* the error of one sub-operator of a range entry, <<>> when it passes
RangeOpError(allowedOps, field, op, v) ==
  IF ~isRangeOp(op)
  THEN <<"Invalid range operator for ">> \o field \o <<": ", op>>
  ELSE IF ~(Has(allowedOps, op) /\ allowedOps[op])
  THEN <<"Range operator not allowed for ">> \o field \o <<": ", op>>
  ELSE IF op = "between" /\ ~(isArray(v) /\ Len(v.items) = 2)
  THEN <<"between(">> \o field \o <<") requires an array of exactly 2 values">>
  ELSE <<>>

RECURSIVE ValidateRangeOps(_, _, _, _, _)
ValidateRangeOps(st, allowedOps, field, entries, ops) ==
  IF ops = <<>> THEN st
  ELSE LET op == Head(ops)
           msg == RangeOpError(allowedOps, field, op, entries[op])
       IN IF msg # <<>>
          THEN ValidateRangeOps(
                 Write(Push(st, msg), "rangeEntry",
                       <<"filters", "range", field>>, TRUE, op, <<>>),
                 allowedOps, field, entries, Tail(ops))
          ELSE ValidateRangeOps(st, allowedOps, field, entries, Tail(ops))

RECURSIVE ValidateRange(_, _, _, _)
ValidateRange(st, cfg, entries, keys) ==
  IF keys = <<>> THEN st
  ELSE LET field == Head(keys)
           cfgVal == entries[field]
       IN IF ~RangeAllowed(cfg, field)
          THEN ValidateRange(
                 Write(Push(st, NotAllowedMsg(field, "range")),
                       "range", <<"filters", "range">>, TRUE, field, <<>>),
                 cfg, entries, Tail(keys))
          ELSE LET rule == RuleOf(cfg, field)
                   st1 == ValidateRangeOps(st, rule.allow.range, field, cfgVal,
                                           KeysOf(DOMAIN cfgVal))
                   obj == st1.san.filters.range[field]
                   st2 == IF HasValidator(rule, "range")
                             /\ ~RunValidator(rule.validate.range, obj)
                          THEN Push(st1, <<"Custom validation failed for range(">> \o field \o <<")">>)
                          ELSE st1
                   st3 == IF DOMAIN obj = {}
                          THEN Write(st2, "range", <<"filters", "range">>, TRUE, field, <<>>)
                          ELSE Write(st2, "range", <<"filters", "range">>, FALSE, field, obj)
               IN ValidateRange(st3, cfg, entries, Tail(keys))

\* delete the bucket when the loop left it empty
DropEmptyBucket(st, b) ==
  IF DOMAIN st.san.filters[b] = {}
  THEN Write(st, "filters", <<"filters">>, TRUE, b, <<>>)
  ELSE st

ValidateRaw_Keep(st) == st
ValidateRaw(st) ==
  IF Has(st.san.filters, "raw")
  THEN Write(st, "filters", <<"filters">>, TRUE, "raw", <<>>)
  ELSE st

\* no filter rules on the server side: the user's filters are dropped
StripFilters_Keep(st) == st
StripFilters(st) ==
  IF Has(st.san, "filters")
  THEN Write(st, "root", <<>>, TRUE, "filters", <<>>)
  ELSE st

ValidateFilters(st, cfg) ==
  IF Has(st.san, "filters") /\ Has(cfg, "filters") /\ Len(cfg.filters) > 0
  THEN LET s1 == IF Has(st.san.filters, "equals")
                 THEN DropEmptyBucket(
                        ValidateEquals(st, cfg, st.san.filters.equals,
                                       KeysOf(DOMAIN st.san.filters.equals)),
                        "equals")
                 ELSE st
           s2 == IF Has(s1.san.filters, "contains")
                 THEN DropEmptyBucket(
                        ValidateContains(s1, cfg, s1.san.filters.contains,
                                         KeysOf(DOMAIN s1.san.filters.contains)),
                        "contains")
                 ELSE s1
           s3 == IF Has(s2.san.filters, "range")
                 THEN DropEmptyBucket(
                        ValidateRange(s2, cfg, s2.san.filters.range,
                                      KeysOf(DOMAIN s2.san.filters.range)),
                        "range")
                 ELSE s2
           s4 == ValidateRaw(s3)
       IN IF ~Has(s4.san.filters, "equals") /\ ~Has(s4.san.filters, "contains")
             /\ ~Has(s4.san.filters, "range")
          THEN Write(s4, "root", <<>>, TRUE, "filters", <<>>)
          ELSE s4
  ELSE StripFilters(st)

\* the outcome of the call: the value returned or the error thrown, and the
\* caller's intent as the call left it
Throw(st) ==
  [ok |-> FALSE, status |-> 400,
   message |-> <<"Failed to validate request: ">> \o join(st.errors, <<"; ">>),
   errors |-> st.errors, sanitized |-> st.san, base |-> st.base]
Return(st) ==
  [ok |-> TRUE, status |-> 200, message |-> <<>>,
   errors |-> st.errors, sanitized |-> st.san, base |-> st.base]

validateQueryParams(baseOpts, cfg) ==
  LET s0 == [san |-> CopyOpts(baseOpts), base |-> baseOpts,
             shared |-> CopyShared, errors |-> <<>>]
      s1 == ValidatePagination(s0, cfg)
      s2 == ValidateSortDir(ValidateSortBy(s1, cfg), cfg)
      s3 == ValidateAllowlist(s2)
      s4 == ValidateSearch(s3, cfg)
      s5 == ValidateFilters(s4, cfg)
  IN IF Len(s5.errors) > 0 THEN Throw(s5) ELSE Return(s5)


\* ------------------------------------------------------------- compiler

\* a leaf comparison { [field]: { [op]: value } }
Leaf(field, op, value) == [field |-> field, op |-> op, value |-> value]
\* an element of where[Op.and]
AndNode(kind, pieces) == [kind |-> kind, pieces |-> pieces]
\* where[k]: a bare value (equality) or an object keyed by operators
Scalar(v) == [scalar |-> TRUE, val |-> v, ops |-> <<>>]
OpsNode(ops) == [scalar |-> FALSE, val |-> Undef, ops |-> ops]

\* { ...x }: the own enumerable properties of x. A string spreads to its
\* indexed characters, any other primitive to nothing.
Spread(node) ==
  IF ~node.scalar THEN node.ops
  ELSE IF node.val.kind = "str"
  THEN LET s == node.val.items[1]
       IN [i \in (IF Len(s) > 0 THEN {"0"} ELSE {}) |-> Str(<<s[1]>>)]
  ELSE <<>>

\* { ...a, ...b }
Merge(a, b) == [k \in DOMAIN a \cup DOMAIN b |-> IF k \in DOMAIN b THEN b[k] ELSE a[k]]

RECURSIVE BuildEquals(_, _, _)
BuildEquals(where, entries, keys) ==
  IF keys = <<>> THEN where
  ELSE LET k == Head(keys)
           v == entries[k]
       IN IF v.kind = "undef" THEN BuildEquals(where, entries, Tail(keys))
          ELSE IF isArray(v)
          THEN BuildEquals([where EXCEPT !.fields = Put(@, k, OpsNode([in |-> v]))],
                           entries, Tail(keys))
          ELSE BuildEquals([where EXCEPT !.fields = Put(@, k, Scalar(v))],
                           entries, Tail(keys))

Wildcards(s) == Str(<<"%">> \o s \o <<"%">>)

RECURSIVE BuildContains(_, _, _, _)
BuildContains(where, entries, keys, likeOp) ==
  IF keys = <<>> THEN where
  ELSE LET k == Head(keys)
           v == entries[k]
           values == SelectSeq(v.items, LAMBDA s : s # <<>>)
           pieces == [i \in 1..Len(values) |-> Leaf(k, likeOp, Wildcards(values[i]))]
       IN IF v.kind = "undef" THEN BuildContains(where, entries, Tail(keys), likeOp)
          ELSE IF Len(pieces) > 0
          THEN BuildContains([where EXCEPT !.and = Append(@, AndNode("or", pieces))],
                             entries, Tail(keys), likeOp)
          ELSE BuildContains(where, entries, Tail(keys), likeOp)

RangeClause(cfg) ==
  [op \in {o \in DOMAIN cfg : isRangeOp(o) /\ cfg[o].kind # "undef"} |-> cfg[op]]

RECURSIVE BuildRange(_, _, _)
BuildRange(where, entries, keys) ==
  IF keys = <<>> THEN where
  ELSE LET k == Head(keys)
           clause == RangeClause(entries[k])
           old == IF Has(where.fields, k) THEN Spread(where.fields[k]) ELSE <<>>
       IN IF DOMAIN clause # {}
          THEN BuildRange([where EXCEPT !.fields = Put(@, k, OpsNode(Merge(old, clause)))],
                          entries, Tail(keys))
          ELSE BuildRange(where, entries, Tail(keys))

BuildFilters(where, opts, likeOp) ==
  IF ~Has(opts, "filters") THEN where
  ELSE LET f == opts.filters
           w1 == IF Has(f, "equals")
                 THEN BuildEquals(where, f.equals, KeysOf(DOMAIN f.equals)) ELSE where
           w2 == IF Has(f, "contains")
                 THEN BuildContains(w1, f.contains, KeysOf(DOMAIN f.contains), likeOp) ELSE w1
           w3 == IF Has(f, "range")
                 THEN BuildRange(w2, f.range, KeysOf(DOMAIN f.range)) ELSE w2
       IN IF Has(f, "raw")
          THEN [w3 EXCEPT !.and = Append(@, AndNode("raw", f.raw))]
          ELSE w3

BuildSearch(where, opts, likeOp) ==
  IF Has(opts, "search") /\ Has(opts.search, "q") /\ opts.search.q # <<>>
     /\ Has(opts.search, "columns") /\ Len(opts.search.columns) > 0
  THEN LET s == opts.search
           ors == [i \in 1..Len(s.columns) |-> Leaf(s.columns[i], likeOp, Wildcards(s.q))]
       IN [where EXCEPT !.and = Append(@, AndNode("or", ors))]
  ELSE where

\* an OrderItem: a [column, direction] array, or a bare column
OrderPair(f, d) == [isArr |-> TRUE, elems |-> <<f, d>>]
OrderCol(f) == [isArr |-> FALSE, elems |-> <<f>>]
BuiltinDefaultOrder == <<OrderPair(<<"created_at">>, <<"DESC">>)>>

BuildOrder(opts) ==
  LET defaultOrder == IF Has(opts, "defaultOrder") THEN opts.defaultOrder
                      ELSE BuiltinDefaultOrder
  IN IF Has(opts, "sort") /\ Has(opts.sort, "sortBy") /\ opts.sort.sortBy # <<>>
     THEN LET sort == opts.sort
              safe == ~Has(sort, "allowlist") \/ Includes(sort.allowlist, sort.sortBy)
              dir == IF Has(sort, "sortDir") THEN sort.sortDir ELSE <<"asc">>
          IN IF safe THEN <<OrderPair(sort.sortBy, toUpperCase(dir))>> ELSE defaultOrder
     ELSE defaultOrder

MaxLimit == 200

Limit(p) ==
  LET ps == IF Has(p, "pageSize") THEN p.pageSize ELSE DefaultPageSize
      lo == IF ps > 1 THEN ps ELSE 1
  IN IF lo < MaxLimit THEN lo ELSE MaxLimit

CursorField_Id(p, order) ==
  IF Has(p, "cursorField") THEN p.cursorField ELSE <<"id">>

CursorField(p, order) ==
  IF Has(p, "cursorField") THEN p.cursorField
  ELSE IF Len(order) > 0 /\ order[1].isArr THEN order[1].elems[1]
  ELSE <<"id">>

CursorCmp_NextOnly(p, order) ==
  LET isDesc == Len(order) > 0 /\ order[1].isArr /\ Len(order[1].elems) >= 2
                /\ toUpperCase(order[1].elems[2]) = <<"DESC">>
  IN IF isDesc THEN "lt" ELSE "gt"

CursorCmp(p, order) ==
  LET next == (IF Has(p, "direction") THEN p.direction ELSE <<"next">>) = <<"next">>
      isDesc == Len(order) > 0 /\ order[1].isArr /\ Len(order[1].elems) >= 2
                /\ toUpperCase(order[1].elems[2]) = <<"DESC">>
  IN IF next THEN (IF isDesc THEN "lt" ELSE "gt")
     ELSE (IF isDesc THEN "gt" ELSE "lt")

HasCursor_Never(p) == FALSE

\* p.cursor !== undefined && p.cursor !== null && p.cursor !== ""
HasCursor(p) == Has(p, "cursor") /\ p.cursor # <<>>

buildSequelizeQuery(opts) ==
  LET useILike == Has(opts, "search") /\ Has(opts.search, "dialect")
                  /\ opts.search.dialect = "postgres"
      likeOp == IF useILike THEN "iLike" ELSE "like"
      w0 == [fields |-> <<>>, and |-> <<>>]
      w1 == BuildSearch(BuildFilters(w0, opts, likeOp), opts, likeOp)
      order == BuildOrder(opts)
      p == IF Has(opts, "pagination") THEN opts.pagination ELSE EmptyObj
  IN IF Has(p, "mode") /\ p.mode = "cursor"
     THEN LET hasCursor == HasCursor(p)
              clause == Leaf(CursorField(p, order), CursorCmp(p, order),
                             Str(IF Has(p, "cursor") THEN p.cursor ELSE <<>>))
              w2 == IF hasCursor
                    THEN [w1 EXCEPT !.and = Append(@, AndNode("cursor", <<clause>>))]
                    ELSE w1
              base == [where |-> w2, order |-> order, limit |-> Limit(p),
                       cursorOrder |-> order]
          IN IF hasCursor THEN Put(base, "cursorClause", clause) ELSE base
     ELSE LET pg == IF Has(p, "page") THEN p.page ELSE 1
              page == IF pg > 1 THEN pg ELSE 1
              pageSize == Limit(p)
          IN [where |-> w1, order |-> order, limit |-> pageSize,
              offset |-> (page - 1) * pageSize]


\* --------------------------------------------------------------- parser
\* req.query: the decoded query string, a sequence of [key, value] pairs
\* with distinct keys, in the order of the request
Param(k, v) == [key |-> k, value |-> v]

\* the value of a destructured key, as a list of zero or one value
Lookup(query, name) ==
  LET hits == SelectSeq(query, LAMBDA e : e.key = <<name>>)
  IN [i \in 1..Len(hits) |-> hits[i].value]

\* the string behind a query value, "" when the key is missing or empty
Text(vals) == IF Len(vals) = 0 THEN <<>> ELSE join(vals[1].items, <<",">>)

\* Number(x) || fallback: NaN and 0 both fall back
NumeralOf(t) ==
  CASE t = "1" -> 1
    [] t = "2" -> 2
    [] t = "3" -> 3
    [] t = "20" -> 20
    [] t = "100" -> 100
    [] t = "150" -> 150
    [] t = "250" -> 250
    [] t = "9999" -> 9999
    [] t = "-1" -> 0 - 1
    [] OTHER -> 0
NumberOr_KeepZero(vals, fallback) ==
  LET s == Text(vals)
  IN IF Len(s) = 1 /\ (s[1] = "0" \/ NumeralOf(s[1]) # 0) THEN NumeralOf(s[1]) ELSE fallback

NumberOr(vals, fallback) ==
  LET s == Text(vals)
      n == IF Len(s) = 1 THEN NumeralOf(s[1]) ELSE 0
  IN IF n = 0 THEN fallback ELSE n

ReservedKeys == {<<"page">>, <<"pageSize">>, <<"sortBy">>, <<"sortDir">>, <<"q">>,
                 <<"cursor">>, <<"cursorField">>, <<"direction">>, <<"mode">>}

BracketOps == {"[gte]", "[lte]", "[gt]", "[lt]", "[between]", "[contains]"}
OpOfBracket(t) ==
  CASE t = "[gte]" -> "gte"
    [] t = "[lte]" -> "lte"
    [] t = "[gt]" -> "gt"
    [] t = "[lt]" -> "lt"
    [] t = "[between]" -> "between"
    [] OTHER -> "contains"

\* key.match(/^(.+)\[(gte|lte|gt|lt|between|contains)\]$/)
KeyMatches(key) == Len(key) >= 2 /\ key[Len(key)] \in BracketOps
KeyField(key) == SubSeq(key, 1, Len(key) - 1)
KeyOp(key) == OpOfBracket(key[Len(key)])

BetweenEntry_Two(value) ==
  LET parts == split(join(value.items, <<",">>), ",", <<>>)
  IN [between |-> Arr(IF Len(parts) > 2 THEN SubSeq(parts, 1, 2)
                      ELSE IF Len(parts) = 1 THEN parts \o <<<<>>>>
                      ELSE parts)]

\* { between: String(value).split(",") }
BetweenEntry(value) == [between |-> Arr(split(join(value.items, <<",">>), ",", <<>>))]

RECURSIVE ParseFilters(_, _)
ParseFilters(acc, rest) ==
  IF rest = <<>> THEN acc
  ELSE LET key == Head(rest).key
           value == Head(rest).value
       IN IF KeyMatches(key)
          THEN LET field == KeyField(key)
                   op == KeyOp(key)
               IN IF op = "contains"
                  THEN ParseFilters([acc EXCEPT !.contains = Put(@, field, value)], Tail(rest))
                  ELSE IF op = "between"
                  THEN ParseFilters(
                         [acc EXCEPT !.range = Put(@, field, BetweenEntry(value))],
                         Tail(rest))
                  ELSE ParseFilters(
                         [acc EXCEPT !.range = Put(@, field,
                            Put(IF Has(acc.range, field) THEN acc.range[field] ELSE EmptyObj,
                                op, value))],
                         Tail(rest))
          ELSE ParseFilters([acc EXCEPT !.equals = Put(@, key, value)], Tail(rest))

parseQueryFromRequest(query) ==
  LET rest == SelectSeq(query, LAMBDA e : e.key \notin ReservedKeys)
      mode == Text(Lookup(query, "mode"))
      cursorField == Text(Lookup(query, "cursorField"))
      direction == Text(Lookup(query, "direction"))
      pagination ==
        IF mode = <<"cursor">>
        THEN LET p0 == [mode |-> "cursor",
                        direction |-> IF direction = <<>> THEN <<"next">> ELSE direction,
                        pageSize |-> NumberOr(Lookup(query, "pageSize"), DefaultPageSize)]
                 p1 == IF Len(Lookup(query, "cursor")) > 0
                       THEN Put(p0, "cursor", Text(Lookup(query, "cursor"))) ELSE p0
             IN IF cursorField # <<>> THEN Put(p1, "cursorField", cursorField) ELSE p1
        ELSE [mode |-> "offset",
              page |-> NumberOr(Lookup(query, "page"), 1),
              pageSize |-> NumberOr(Lookup(query, "pageSize"), DefaultPageSize)]
      sortBy == Text(Lookup(query, "sortBy"))
      sortDir == Text(Lookup(query, "sortDir"))
      sort0 == [sortDir |-> IF sortDir = <<>> THEN <<"asc">> ELSE sortDir,
                allowlist |-> <<>>]
      sort == IF sortBy # <<>> THEN Put(sort0, "sortBy", sortBy) ELSE sort0
      q == Text(Lookup(query, "q"))
      f == ParseFilters([equals |-> EmptyObj, range |-> EmptyObj, contains |-> EmptyObj],
                        rest)
      f1 == IF DOMAIN f.range = {} THEN Del(f, "range") ELSE f
      filters == IF DOMAIN f.contains = {} THEN Del(f1, "contains") ELSE f1
      o == [pagination |-> pagination, sort |-> sort, filters |-> filters]
  IN IF q # <<>>
     THEN Put(o, "search", [q |-> q, columns |-> <<>>, dialect |-> "postgres"])
     ELSE o


\* ------------------------------------------------------------ the inputs
MaxPage == 2
MaxBetween == 3

Title == <<"title">>
Body == <<"body">>
Secret == <<"secret">>
Id == <<"id">>

PageSizes == {0 - 1, 0, 3, 20, 150, 250}
PageOpts == {EmptyObj} \cup {[page |-> n] : n \in (0 - 1)..MaxPage}
SizeOpts == {EmptyObj} \cup {[pageSize |-> n] : n \in PageSizes}
OffsetPags ==
  {Merge(Merge(m, pg), ps) : m \in {EmptyObj, [mode |-> "offset"]},
                             pg \in PageOpts, ps \in SizeOpts}
CursorPags ==
  {Merge(Merge([mode |-> "cursor"], Merge(ps, c)), Merge(cf, d)) :
     ps \in SizeOpts, c \in {EmptyObj, [cursor |-> <<"10">>]},
     cf \in {EmptyObj, [cursorField |-> Id], [cursorField |-> Secret]},
     d \in {EmptyObj, [direction |-> <<"next">>], [direction |-> <<"prev">>]}}
PagParts == {EmptyObj} \cup {[pagination |-> p] : p \in OffsetPags \cup CursorPags}
PagPols ==
  {Merge(lo, hi) : lo \in {EmptyObj, [minPageSize |-> 5]},
                   hi \in {EmptyObj, [maxPageSize |-> 100], [maxPageSize |-> 500]}}

SortParts ==
  {EmptyObj} \cup
  {[sort |-> Merge(Merge(sb, sd), al)] :
     sb \in {EmptyObj, [sortBy |-> Title], [sortBy |-> Secret], [sortBy |-> <<>>]},
     sd \in {EmptyObj, [sortDir |-> <<"asc">>], [sortDir |-> <<"DESC">>],
             [sortDir |-> <<"up">>], [sortDir |-> <<>>]},
     al \in {EmptyObj, [allowlist |-> <<>>], [allowlist |-> <<Secret>>]}}
SortPols ==
  {Merge(sc, sd) : sc \in {EmptyObj, [sortColumns |-> <<Id, Title>>]},
                   sd \in {EmptyObj, [sortDir |-> <<<<"asc">>>>],
                           [sortDir |-> <<<<"asc">>, <<"desc">>>>]}}

SearchParts ==
  {EmptyObj} \cup
  {[search |-> Merge(Merge(q, cols), dia)] :
     q \in {EmptyObj, [q |-> <<"foo">>], [q |-> <<>>]},
     cols \in {EmptyObj, [columns |-> <<>>], [columns |-> <<Title>>],
               [columns |-> <<Title, Secret>>], [columns |-> <<Secret, Id>>]},
     dia \in {EmptyObj, [dialect |-> "postgres"], [dialect |-> "mysql"]}}
SearchPols == {EmptyObj, [searchColumns |-> <<>>], [searchColumns |-> <<Title, Body>>]}

EqValues == {Str(<<"3">>), Arr(<<<<"3">>, <<"4">>>>), ObjArr(<<<<"3">>>>), Undef}
CtValues == {Str(<<"foo">>), Arr(<<<<"foo">>, <<"bar">>>>), Num(<<"7">>), Str(<<>>)}
BetweenValues ==
  {Arr([i \in 1..n |-> <<"1">>]) : n \in 1..MaxBetween} \cup {Str(<<"1">>)}
RangeObjs ==
  {Merge(Merge(g, l), Merge(b, x)) :
     g \in {EmptyObj, [gte |-> Str(<<"1">>)]},
     l \in {EmptyObj, [lt |-> Str(<<"9">>)]},
     b \in {EmptyObj} \cup {[between |-> v] : v \in BetweenValues},
     x \in {EmptyObj, [like |-> Str(<<"z">>)]}}

EqParts ==
  {EmptyObj} \cup
  {[equals |-> Merge(t, s)] : t \in {EmptyObj} \cup {Title :> v : v \in EqValues},
                              s \in {EmptyObj, Secret :> Str(<<"x">>)}}
CtParts ==
  {EmptyObj} \cup
  {[contains |-> Merge(t, s)] : t \in {EmptyObj} \cup {Title :> v : v \in CtValues},
                                s \in {EmptyObj, Secret :> Str(<<"x">>)}}
RgParts ==
  {EmptyObj} \cup
  {[range |-> Merge(t, s)] : t \in {EmptyObj} \cup {Title :> o : o \in RangeObjs},
                             s \in {EmptyObj, Secret :> [gte |-> Str(<<"1">>)]}}
RawParts == {EmptyObj, [raw |-> <<Leaf(Secret, "eq", Str(<<"x">>))>>]}

FewEq == {EmptyObj, [equals |-> Secret :> Str(<<"x">>)]}
FewCt == {EmptyObj, [contains |-> Title :> Str(<<"foo">>)]}
FewRg == {EmptyObj,
          [range |-> Title :> [gte |-> Str(<<"1">>), lt |-> Str(<<"9">>)]],
          [range |-> Title :> [gte |-> Str(<<"1">>),
                               between |-> Arr(<<<<"1">>, <<"1">>, <<"1">>>>)]]}

FilterObjs ==
  {Merge(Merge(e, c), Merge(r, w)) : e \in EqParts, c \in FewCt, r \in FewRg, w \in RawParts}
  \cup
  {Merge(Merge(e, c), Merge(r, w)) : e \in FewEq, c \in CtParts, r \in FewRg, w \in RawParts}
  \cup
  {Merge(Merge(e, c), Merge(r, w)) : e \in FewEq, c \in FewCt, r \in RgParts, w \in RawParts}
FilterParts == {EmptyObj} \cup {[filters |-> f] : f \in FilterObjs}

AllRange == [gte |-> TRUE, lt |-> TRUE, between |-> TRUE]
Rule(field, allow) == [field |-> field, allow |-> allow]
FilterPols ==
  {EmptyObj,
   [filters |-> <<>>],
   [filters |-> <<Rule(Title, [equals |-> TRUE, contains |-> TRUE, range |-> AllRange])>>],
   [filters |-> <<Rule(Title, [equals |-> TRUE])>>],
   [filters |-> <<Rule(Title, [contains |-> TRUE, range |-> [gte |-> TRUE, lt |-> FALSE]])>>],
   [filters |-> <<Rule(Title, [equals |-> FALSE, range |-> EmptyObj]),
                  Rule(Secret, [equals |-> TRUE, contains |-> TRUE, range |-> AllRange])>>],
   [filters |-> <<Put(Rule(Title, [equals |-> TRUE, contains |-> TRUE, range |-> AllRange]),
                      "validate",
                      [equals |-> "reject", contains |-> "accept", range |-> "reject"])>>],
   [filters |-> <<Rule(Title, [contains |-> TRUE]),
                  Rule(Title, [equals |-> TRUE, range |-> AllRange])>>]}

OrderParts ==
  {EmptyObj, [defaultOrder |-> <<OrderPair(Id, <<"asc">>)>>]}

\* an intent in which everything is allowed by RestPol
RestOpts ==
  [pagination |-> [mode |-> "offset", page |-> 1, pageSize |-> 20],
   sort |-> [sortBy |-> Title, sortDir |-> <<"DESC">>, allowlist |-> <<>>],
   search |-> [q |-> <<"foo">>, columns |-> <<>>, dialect |-> "postgres"]]
RestPol ==
  [sortColumns |-> <<Id, Title>>, searchColumns |-> <<Title, Body>>,
   maxPageSize |-> 100]

Case(o, c) == [opts |-> o, cfg |-> c]

\* each part of the intent varied on its own against each policy for it
PagCases ==
  {Case(Merge(Del(RestOpts, "pagination"), p), Merge(Del(RestPol, "maxPageSize"), c)) :
     p \in PagParts, c \in PagPols}
SortCases ==
  {Case(Merge(Del(RestOpts, "sort"), p), Merge(Del(RestPol, "sortColumns"), c)) :
     p \in SortParts, c \in SortPols}
SearchCases ==
  {Case(Merge(Del(RestOpts, "search"), p), Merge(Del(RestPol, "searchColumns"), c)) :
     p \in SearchParts, c \in SearchPols}
FilterCases ==
  {Case(Merge(RestOpts, p), Merge(RestPol, c)) : p \in FilterParts, c \in FilterPols}

\* several parts at once
MixOpts ==
  {Merge(Merge(pg, so), Merge(Merge(se, fi), od)) :
     pg \in {[pagination |-> [mode |-> "offset", page |-> 0, pageSize |-> 250]],
             [pagination |-> [mode |-> "cursor", cursor |-> <<"10">>,
                              cursorField |-> Secret]]},
     so \in {EmptyObj,
             [sort |-> [sortBy |-> Secret, sortDir |-> <<"up">>, allowlist |-> <<>>]],
             [sort |-> [sortBy |-> Title, sortDir |-> <<"DESC">>]]},
     se \in {EmptyObj,
             [search |-> [q |-> <<"foo">>, columns |-> <<Secret, Title, Id>>,
                          dialect |-> "mysql"]]},
     fi \in {EmptyObj,
             [filters |->
                [equals |-> (Title :> Str(<<"3">>)) @@ (Secret :> Str(<<"x">>)),
                 contains |-> (Secret :> Str(<<"x">>)),
                 range |-> (Title :> [gte |-> Str(<<"1">>), lt |-> Str(<<"9">>),
                                      between |-> Arr(<<<<"1">>>>)]),
                 raw |-> <<Leaf(Secret, "eq", Str(<<"x">>))>>]],
             [filters |-> [equals |-> EmptyObj,
                           range |-> (Title :> [gte |-> Str(<<"1">>)])]]},
     od \in OrderParts}
MixPols ==
  {Merge(Merge(a, b), Merge(c, d)) :
     a \in {EmptyObj, [maxPageSize |-> 100]},
     b \in {EmptyObj, [sortColumns |-> <<Id, Title>>, sortDir |-> <<<<"asc">>, <<"desc">>>>]},
     c \in {EmptyObj, [searchColumns |-> <<Title, Body>>]},
     d \in FilterPols}
MixCases == {Case(o, c) : o \in MixOpts, c \in MixPols}

\* cursor and offset pagination against each way the order comes about
OrderPags ==
  {Merge(Merge([mode |-> "cursor", pageSize |-> 3], c), Merge(cf, d)) :
     c \in {EmptyObj, [cursor |-> <<"10">>], [cursor |-> <<>>]},
     cf \in {EmptyObj, [cursorField |-> Id]},
     d \in {EmptyObj, [direction |-> <<"next">>], [direction |-> <<"prev">>]}}
  \cup
  {[mode |-> "offset", page |-> 2, pageSize |-> 3, cursor |-> <<"10">>,
    cursorField |-> Id, direction |-> <<"prev">>],
   [page |-> 2, cursor |-> <<"10">>]}
OrderSorts ==
  {EmptyObj,
   [sort |-> [sortBy |-> Title]],
   [sort |-> [sortBy |-> Title, sortDir |-> <<"asc">>]],
   [sort |-> [sortBy |-> Title, sortDir |-> <<"DESC">>]],
   [sort |-> [sortBy |-> Title, sortDir |-> <<"desc">>, allowlist |-> <<>>]],
   [sort |-> [sortBy |-> <<>>, sortDir |-> <<"desc">>]]}
OrderDefaults ==
  {EmptyObj,
   [defaultOrder |-> <<OrderPair(Id, <<"asc">>)>>],
   [defaultOrder |-> <<OrderPair(Id, <<"desc">>)>>],
   [defaultOrder |-> <<OrderPair(Id, <<"DESC">>), OrderPair(Title, <<"asc">>)>>],
   [defaultOrder |-> <<>>],
   [defaultOrder |-> <<OrderCol(Title)>>]}
OrderCases ==
  {Case(Merge([pagination |-> p], Merge(so, od)), RestPol) :
     p \in OrderPags, so \in OrderSorts, od \in OrderDefaults}

\* contains filters against each way the dialect and the search term come
DialectSearches ==
  {EmptyObj} \cup
  {[search |-> Merge(q, dia)] :
     q \in {EmptyObj, [q |-> <<"foo">>], [q |-> <<>>]},
     dia \in {EmptyObj, [dialect |-> "postgres"], [dialect |-> "mysql"]}}
DialectCases ==
  {Case(Merge(Merge(Del(RestOpts, "search"), se), [filters |-> [contains |-> Title :> v]]),
        Merge(RestPol, [filters |-> <<Rule(Title, [contains |-> TRUE])>>])) :
     se \in DialectSearches,
     v \in {Str(<<"foo">>), Arr(<<<<"foo">>, <<"bar">>>>)}}

Cases ==
  PagCases \cup SortCases \cup SearchCases \cup FilterCases \cup MixCases \cup OrderCases
  \cup DialectCases

\* raw requests
Queries ==
  {<<Param(<<"page">>, Str(<<"0">>)), Param(<<"pageSize">>, Str(<<"9999">>))>>,
   <<Param(<<"sortBy">>, Str(Title)), Param(<<"sortDir">>, Str(<<"desc">>)),
     Param(<<"userId", "[equals]">>, Str(<<"3">>))>>,
   <<Param(<<"mode">>, Str(<<"cursor">>)), Param(<<"cursor">>, Str(<<"10">>)),
     Param(<<"direction">>, Str(<<"next">>))>>}
QueryPols ==
  {[minPageSize |-> 1, maxPageSize |-> 100],
   [sortColumns |-> <<Title>>,
    filters |-> <<Rule(<<"userId">>, [equals |-> TRUE])>>]}

\* ------------------------------------------------ the posts list handler
\* the rules literal of PostController.getPosts
PostRules ==
  [sortColumns |-> <<Id, Title, <<"createdAt">>, <<"updatedAt">>>>,
   sortDir |-> <<<<"asc">>, <<"desc">>>>,
   filters |-> <<Rule(Title, [contains |-> TRUE]),
                 Rule(<<"userId">>, [equals |-> TRUE]),
                 Rule(<<"createdAt">>, [range |-> [gte |-> TRUE, lte |-> TRUE]])>>,
   searchColumns |-> <<Title, Body>>,
   maxPageSize |-> 100]

\* new ApiErrorClass(message, statusCode), and an error of another class
ApiError(message, statusCode) ==
  [name |-> "ApiError", message |-> message, statusCode |-> statusCode, api |-> TRUE]
NoError == [name |-> "", message |-> <<>>, statusCode |-> 0, api |-> FALSE]

\* res.status(status).json(body)
Response(status, success, message, meta) ==
  [status |-> status, success |-> success, message |-> message, meta |-> meta]
NoResponse == Response(0, FALSE, <<>>, EmptyObj)

\* Math.ceil(a / b) for b # 0
CeilDiv(a, b) ==
  LET n == IF b < 0 THEN 0 - a ELSE a
      d == IF b < 0 THEN 0 - b ELSE b
  IN 0 - ((0 - n) \div d)

\* the meta block of PostService.getAllPosts
Meta(baseOpts, totalItems) ==
  LET p == IF Has(baseOpts, "pagination") THEN baseOpts.pagination ELSE EmptyObj
      page == IF Has(p, "page") /\ p.page # 0 THEN p.page ELSE 1
      pageSize == IF Has(p, "pageSize") /\ p.pageSize # 0 THEN p.pageSize ELSE 10
  IN [currentPage |-> page, pageSize |-> pageSize, totalItems |-> totalItems,
      totalPages |-> CeilDiv(totalItems, pageSize)]

\* globalErrorHandler: the response it sends for an error
globalErrorHandler(error) ==
  IF includes(toLowerCase(error.message), <<"not found">>)
  THEN Response(404, FALSE, error.message, EmptyObj)
  ELSE IF error.name \in {"ValidationError", "ZodError"}
  THEN Response(400, FALSE, <<"Validation failed">>, EmptyObj)
  ELSE IF error.name \in {"JsonWebTokenError", "TokenExpiredError"}
  THEN Response(401, FALSE, <<"Authentication failed">>, EmptyObj)
  ELSE IF error.api
  THEN Response(error.statusCode, FALSE, error.message, EmptyObj)
  ELSE IF error.name \in {"SequelizeValidationError", "SequelizeUniqueConstraintError"}
  THEN Response(400, FALSE, <<"Database validation error">>, EmptyObj)
  ELSE IF error.name = "SequelizeForeignKeyConstraintError"
  THEN Response(400, FALSE, <<"Related record not found">>, EmptyObj)
  ELSE IF error.name = "SequelizeDatabaseError"
  THEN Response(500, FALSE, <<"Database error">>, EmptyObj)
  ELSE Response(500, FALSE, <<"An unexpected error occurred">>, EmptyObj)

\* the requests to GET /api/posts
MaxItems == 3

Opt(name, texts) == {<<>>} \cup {<<Param(<<name>>, Str(t))>> : t \in texts}
ReqFilters ==
  {<<>>,
   <<Param(<<"title", "[contains]">>, Str(<<"foo">>))>>,
   <<Param(<<"userId">>, Str(<<"3">>))>>,
   <<Param(<<"userId", "[equals]">>, Str(<<"3">>))>>,
   <<Param(<<"secret", "[equals]">>, Str(<<"x">>))>>,
   <<Param(<<"not found">>, Str(<<"x">>))>>,
   <<Param(<<"createdAt", "[gte]">>, Str(<<"1">>)),
     Param(<<"createdAt", "[lte]">>, Str(<<"9">>))>>,
   <<Param(<<"createdAt", "[gte]">>, Str(<<"1">>)),
     Param(<<"createdAt", "[between]">>, Str(<<"1", ",", "9">>))>>,
   <<Param(<<"title">>, Str(<<"3">>)), Param(<<"title", "[gt]">>, Str(<<"1">>))>>,
   <<Param(<<"createdAt", "[between]">>, Str(<<"1">>))>>,
   <<Param(<<"createdAt", "[between]">>, Str(<<"1", ",", "5", ",", "9">>))>>,
   <<Param(<<"createdAt", "[between]">>, Str(<<"1", ",", "9">>)),
     Param(<<"createdAt", "[gte]">>, Str(<<"1">>))>>,
   <<Param(<<"createdAt", "[gt]">>, Str(<<"1">>)),
     Param(<<"createdAt", "[lte]">>, Str(<<"9">>))>>}
ReqQueries ==
  {pg \o ps \o sb \o sd \o qq \o md \o fl :
     pg \in Opt("page", {<<"0">>, <<"2">>, <<"abc">>}),
     ps \in Opt("pageSize", {<<"9999">>, <<"150">>, <<"3">>, <<"abc">>}),
     sb \in Opt("sortBy", {Title, Secret, <<"not found">>}),
     sd \in Opt("sortDir", {<<"DESC">>, <<"up">>}),
     qq \in Opt("q", {<<"foo">>}),
     md \in {<<>>,
             <<Param(<<"mode">>, Str(<<"keyset">>)), Param(<<"cursor">>, Str(<<"10">>))>>,
             <<Param(<<"mode">>, Str(<<"cursor">>))>>,
             <<Param(<<"mode">>, Str(<<"cursor">>)), Param(<<"cursor">>, Str(<<"10">>)),
               Param(<<"direction">>, Str(<<"prev">>))>>,
             <<Param(<<"mode">>, Str(<<"cursor">>)), Param(<<"cursor">>, Str(<<"10">>)),
               Param(<<"cursorField">>, Str(Secret))>>},
     fl \in ReqFilters}

\* ------------------------------------------------------------- the state
VARIABLES pc, query, opts, held, cfg, vres, vres2, plan, svcOpts, error, count, response

vars == <<pc, query, opts, held, cfg, vres, vres2, plan, svcOpts, error, count, response>>

NoResult ==
  [ok |-> FALSE, status |-> 0, message |-> <<>>, errors |-> <<>>,
   sanitized |-> EmptyObj, base |-> EmptyObj]

Idle ==
  /\ vres = NoResult
  /\ vres2 = NoResult
  /\ plan = EmptyObj
  /\ svcOpts = EmptyObj
  /\ error = NoError
  /\ count = 0
  /\ response = NoResponse

\* an intent built by a caller, or a request not parsed yet
Init ==
  /\ Idle
  /\ \/ /\ pc = "intent"
        /\ query = <<>>
        /\ \E c \in Cases : opts = c.opts /\ cfg = c.cfg
     \/ /\ pc = "request"
        /\ query \in Queries
        /\ cfg \in QueryPols
        /\ opts = EmptyObj
  /\ held = opts

Parse ==
  /\ pc = "request"
  /\ opts' = parseQueryFromRequest(query)
  /\ held' = opts'
  /\ pc' = "intent"
  /\ UNCHANGED <<query, cfg, vres, vres2, plan, svcOpts, error, count, response>>

\* validateQueryParams(held, cfg): held is the object the caller passed
Validate ==
  /\ pc = "intent"
  /\ vres' = validateQueryParams(held, cfg)
  /\ held' = vres'.base
  /\ pc' = IF vres'.ok THEN "validated" ELSE "rejected"
  /\ UNCHANGED <<query, opts, cfg, vres2, plan, svcOpts, error, count, response>>

\* validate the sanitized intent again under the same policy
Revalidate ==
  /\ pc = "validated"
  /\ vres2' = validateQueryParams(vres.sanitized, cfg)
  /\ pc' = "revalidated"
  /\ UNCHANGED <<query, opts, held, cfg, vres, plan, svcOpts, error, count, response>>

\* compile the sanitized intent
Build ==
  /\ pc = "validated"
  /\ plan' = buildSequelizeQuery(vres.sanitized)
  /\ pc' = "compiled"
  /\ UNCHANGED <<query, opts, held, cfg, vres, vres2, svcOpts, error, count, response>>

\* buildSequelizeQuery called on the intent as the caller built it
BuildRaw ==
  /\ pc = "intent"
  /\ plan' = buildSequelizeQuery(opts)
  /\ pc' = "built"
  /\ UNCHANGED <<query, opts, held, cfg, vres, vres2, svcOpts, error, count, response>>

Next == Parse \/ Validate \/ Revalidate \/ Build \/ BuildRaw

Spec == Init /\ [][Next]_vars

\* ---- GET /api/posts: PostController.getPosts under asyncHandler
ReqInit ==
  /\ Idle
  /\ pc = "handler"
  /\ query \in ReqQueries
  /\ cfg = PostRules
  /\ opts = EmptyObj
  /\ held = EmptyObj

\* const baseOpts = parseQueryFromRequest(req)
GetPostsParse ==
  /\ pc = "handler"
  /\ opts' = parseQueryFromRequest(query)
  /\ held' = opts'
  /\ pc' = "parsed"
  /\ UNCHANGED <<query, cfg, vres, vres2, plan, svcOpts, error, count, response>>

GetPostsValidate_NoThrow ==
  /\ pc = "parsed"
  /\ vres' = validateQueryParams(held, cfg)
  /\ held' = vres'.base
  /\ svcOpts' = held'
  /\ pc' = "service"
  /\ UNCHANGED <<query, opts, cfg, vres2, plan, error, count, response>>

\* validateQueryParams(baseOpts, rules); then getAllPosts(baseOpts) is called
GetPostsValidate ==
  /\ pc = "parsed"
  /\ vres' = validateQueryParams(held, cfg)
  /\ held' = vres'.base
  /\ IF vres'.ok
     THEN /\ svcOpts' = held'
          /\ pc' = "service"
          /\ error' = error
     ELSE /\ error' = ApiError(vres'.message, vres'.status)
          /\ pc' = "thrown"
          /\ svcOpts' = svcOpts
  /\ UNCHANGED <<query, opts, cfg, vres2, plan, count, response>>

\* PostService.getAllPosts: buildSequelizeQuery(baseOpts)
GetAllPostsBuild ==
  /\ pc = "service"
  /\ plan' = buildSequelizeQuery(svcOpts)
  /\ pc' = "querying"
  /\ UNCHANGED <<query, opts, held, cfg, vres, vres2, svcOpts, error, count, response>>

\* postRepository.findAndCountAll(queryOptions) resolves
FindAndCountAll ==
  /\ pc = "querying"
  /\ count' \in 0..MaxItems
  /\ pc' = "found"
  /\ UNCHANGED <<query, opts, held, cfg, vres, vres2, plan, svcOpts, error, response>>

\* postRepository.findAndCountAll rejects: the catch block of getAllPosts
FindFails ==
  /\ pc = "querying"
  /\ error' = ApiError(<<"Failed to get posts">>, 500)
  /\ pc' = "thrown"
  /\ UNCHANGED <<query, opts, held, cfg, vres, vres2, plan, svcOpts, count, response>>

\* this.sendSuccess(res, posts.data, 200, posts.meta)
SendSuccess ==
  /\ pc = "found"
  /\ response' = Response(200, TRUE, <<>>, Meta(svcOpts, count))
  /\ pc' = "done"
  /\ UNCHANGED <<query, opts, held, cfg, vres, vres2, plan, svcOpts, error, count>>

\* Promise.resolve(fn(req, res, next)).catch(next)
AsyncHandlerCatch ==
  /\ pc = "thrown"
  /\ pc' = "next"
  /\ UNCHANGED <<query, opts, held, cfg, vres, vres2, plan, svcOpts, error, count, response>>

\* app.use(globalErrorHandler)
GlobalErrorHandler ==
  /\ pc = "next"
  /\ response' = globalErrorHandler(error)
  /\ pc' = "done"
  /\ UNCHANGED <<query, opts, held, cfg, vres, vres2, plan, svcOpts, error, count>>

ReqNext ==
  \/ GetPostsParse
  \/ GetPostsValidate
  \/ GetAllPostsBuild
  \/ FindAndCountAll
  \/ FindFails
  \/ SendSuccess
  \/ AsyncHandlerCatch
  \/ GlobalErrorHandler

SpecReq == ReqInit /\ [][ReqNext]_vars

\* ============================================================== claims
Validated == pc \in {"validated", "revalidated", "compiled"}
Called == pc \in {"validated", "revalidated", "compiled", "rejected"}
NoRules(c) == ~Has(c, "filters") \/ Len(c.filters) = 0
HasRaw(o) == Has(o, "filters") /\ Has(o.filters, "raw")

\* ---- the policy as the claims read it
RuleIndexes(c, f) ==
  IF Has(c, "filters") THEN {i \in 1..Len(c.filters) : c.filters[i].field = f} ELSE {}
\* the rule in force for a field: the last one listed for it
Governing(c, f) ==
  c.filters[CHOOSE i \in RuleIndexes(c, f) : \A j \in RuleIndexes(c, f) : j <= i]
Permits(c, f, op) ==
  /\ RuleIndexes(c, f) # {}
  /\ Has(Governing(c, f).allow, op)
  /\ Governing(c, f).allow[op]
PermitsRange(c, f) == RuleIndexes(c, f) # {} /\ Has(Governing(c, f).allow, "range")
RangeOpNames == {"gte", "lte", "gt", "lt", "between"}
PermitsSub(c, f, op) ==
  /\ PermitsRange(c, f)
  /\ op \in RangeOpNames
  /\ Has(Governing(c, f).allow.range, op)
  /\ Governing(c, f).allow.range[op]
Defined(b) == [k \in {x \in DOMAIN b : b[x].kind # "undef"} |-> b[k]]
NotAllowedText(f, op) ==
  <<"Filtering not allowed on field \"">> \o f \o <<"\" with operator \"", op, "\"">>

MinPS(c) == IF Has(c, "minPageSize") THEN c.minPageSize ELSE 1
MaxPS(c) == IF Has(c, "maxPageSize") THEN c.maxPageSize ELSE 200

\* the field/operator pairs of the comparisons of a where-clause
RealOps == {"in", "like", "iLike", "gte", "lte", "gt", "lt", "between"}
LeavesOf(where) ==
  UNION {IF where.fields[k].scalar THEN {[field |-> k, op |-> "eq"]}
         ELSE {[field |-> k, op |-> o] : o \in DOMAIN where.fields[k].ops \cap RealOps} :
         k \in DOMAIN where.fields}
  \cup
  UNION {{[field |-> where.and[i].pieces[j].field, op |-> where.and[i].pieces[j].op] :
            j \in 1..Len(where.and[i].pieces)} : i \in 1..Len(where.and)}

\* the column of the first entry of the order the server supplies
ServerOrderField(o) ==
  LET d == IF Has(o, "defaultOrder") THEN o.defaultOrder ELSE BuiltinDefaultOrder
  IN IF Len(d) > 0 THEN d[1].elems[1] ELSE Id

Permitted(c, o, l) ==
  CASE l.op \in {"eq", "in"} -> Permits(c, l.field, "equals")
    [] l.op \in {"like", "iLike"} ->
         \/ Permits(c, l.field, "contains")
         \/ Has(c, "searchColumns") /\ Includes(c.searchColumns, l.field)
    [] OTHER ->
         \/ PermitsSub(c, l.field, l.op)
         \/ /\ l.op \in {"gt", "lt"}
            /\ \/ Has(c, "sortColumns") /\ Includes(c.sortColumns, l.field)
               \/ l.field = ServerOrderField(o)

\* C1: every comparison of the where-clause compiled from a sanitized intent
\* is on a field/operator pair that the policy's filter rules, sortColumns or
\* searchColumns permit (the column of the server's own default order counts
\* as permitted for the cursor comparison)
C1_AllowlistSound ==
  pc = "compiled" => \A l \in LeavesOf(plan.where) : Permitted(cfg, opts, l)

\* C3: when the intent carries filters.raw and validation succeeds, the
\* sanitized intent has no filters.raw and the compiled where-clause has no
\* raw node, for policies with rules, with an empty rule list and with none
C3_RawStripped ==
  (vres.ok /\ HasRaw(opts)) =>
     /\ ~HasRaw(vres.sanitized)
     /\ pc = "compiled" =>
          \A i \in 1..Len(plan.where.and) : plan.where.and[i].kind # "raw"

C3_Witness ==
  /\ pc = "compiled"
  /\ HasRaw(opts)
  /\ ~NoRules(cfg)
  /\ Has(vres.sanitized, "filters")
  /\ LeavesOf(plan.where) # {}

\* C5: when the policy has no filter rules, absent or empty, a successful
\* validation returns an intent without filters
C5_DefaultDeny ==
  (vres.ok /\ NoRules(cfg)) => ~Has(vres.sanitized, "filters")

C5_Witness ==
  /\ pc = "validated"
  /\ NoRules(cfg)
  /\ Has(opts, "filters")
  /\ Has(opts.filters, "equals")
  /\ DOMAIN opts.filters.equals # {}
  /\ ~Has(vres.sanitized, "filters")

\* C8: the intent the caller passed to validateQueryParams is the same after
\* the call as before it, whether the call returned or threw
C8_InputUnchanged == Called => held = opts

C8_Witness ==
  /\ pc = "rejected"
  /\ Has(opts, "filters")
  /\ Has(opts, "sort")
  /\ Has(opts.sort, "allowlist")
  /\ Has(vres.sanitized, "filters")
  /\ vres.sanitized.filters # opts.filters
  /\ held = opts

\* C9: validating the result of a successful validation again under the same
\* policy succeeds and returns the same intent
C9_Idempotent ==
  pc = "revalidated" => (vres2.ok /\ vres2.sanitized = vres.sanitized)

C9_Witness ==
  /\ pc = "revalidated"
  /\ vres2.ok
  /\ vres.sanitized # opts
  /\ Has(opts, "filters")

\* the request of end-to-end scenario 2 and its page size bounds
Scenario2 == <<Param(<<"page">>, Str(<<"0">>)), Param(<<"pageSize">>, Str(<<"9999">>))>>
Bounds2 == [minPageSize |-> 1, maxPageSize |-> 100]

\* C10: the outcome of validation does not depend on the pagination values;
\* the sanitized pageSize lies between the policy's minPageSize and
\* maxPageSize (1 and 200 when not set) in offset and in cursor mode, the
\* sanitized page of offset mode is at least 1; page=0, pageSize=9999
\* validated with bounds 1..100 gives page 1 and pageSize 100
C10_PaginationBounds ==
  Called =>
    /\ vres.ok = validateQueryParams(Del(opts, "pagination"), cfg).ok
    /\ (vres.ok /\ Has(opts, "pagination")) =>
         LET p == vres.sanitized.pagination
         IN /\ MinPS(cfg) <= p.pageSize
            /\ p.pageSize <= MaxPS(cfg)
            /\ ~(Has(p, "mode") /\ p.mode = "cursor") => p.page >= 1
    /\ (vres.ok /\ query = Scenario2 /\ cfg = Bounds2) =>
         /\ vres.sanitized.pagination.page = 1
         /\ vres.sanitized.pagination.pageSize = 100

C10_Witness ==
  /\ pc = "validated"
  /\ query = Scenario2
  /\ cfg = Bounds2
  /\ opts.pagination.pageSize = 9999
  /\ vres.sanitized.pagination.pageSize = 100


\* ---- the violations of an intent against a policy, stated on the input
Truthy(o, k) == Has(o, k) /\ o[k] # <<>>
BucketOf(o, b) ==
  IF Has(o, "filters") /\ Has(o.filters, b)
  THEN (IF b = "range" THEN [f \in DOMAIN o.filters[b] |-> Defined(o.filters[b][f])]
        ELSE Defined(o.filters[b]))
  ELSE EmptyObj
BadArity(v) == ~(v.kind \in {"arr", "objarr"} /\ Len(v.items) = 2)
Rejects(c, f, op) ==
  /\ Has(Governing(c, f), "validate")
  /\ Has(Governing(c, f).validate, op)
  /\ Governing(c, f).validate[op] # "accept"

SortColViolations(o, c) ==
  IF Has(o, "sort") /\ Truthy(o.sort, "sortBy")
     /\ ~(Has(c, "sortColumns") /\ Includes(c.sortColumns, o.sort.sortBy))
  THEN {<<"Invalid sort column: ">> \o o.sort.sortBy}
  ELSE {}
SortDirViolations(o, c) ==
  IF Has(o, "sort") /\ Truthy(o.sort, "sortDir")
     /\ \/ Has(c, "sortDir") /\ ~Includes(c.sortDir, toLowerCase(o.sort.sortDir))
        \/ toLowerCase(o.sort.sortDir) \notin {<<"asc">>, <<"desc">>}
  THEN {<<"Invalid sort direction: ">> \o o.sort.sortDir}
  ELSE {}
SortViolations(o, c) == SortColViolations(o, c) \cup SortDirViolations(o, c)

SearchViolations(o, c) ==
  IF Has(o, "search") /\ Truthy(o.search, "q")
     /\ Has(c, "searchColumns") /\ Len(c.searchColumns) > 0
     /\ Has(o.search, "columns")
     /\ \E i \in 1..Len(o.search.columns) : ~Includes(c.searchColumns, o.search.columns[i])
  THEN {<<"Invalid search columns: ">>
          \o join(SelectSeq(o.search.columns, LAMBDA x : ~Includes(c.searchColumns, x)),
                  <<", ">>)}
  ELSE {}

EqualsViolations(o, c) ==
  LET b == BucketOf(o, "equals")
  IN {NotAllowedText(f, "equals") : f \in {x \in DOMAIN b : ~Permits(c, x, "equals")}}
     \cup {<<"Invalid value for equals(">> \o f \o <<")">> :
             f \in {x \in DOMAIN b : Permits(c, x, "equals") /\ b[x].kind = "objarr"}}
     \cup {<<"Custom validation failed for equals(">> \o f \o <<")">> :
             f \in {x \in DOMAIN b : Permits(c, x, "equals") /\ Rejects(c, x, "equals")}}

ContainsViolations(o, c) ==
  LET b == BucketOf(o, "contains")
  IN {NotAllowedText(f, "contains") : f \in {x \in DOMAIN b : ~Permits(c, x, "contains")}}
     \cup {<<"Invalid value for contains(">> \o f \o <<")">> :
             f \in {x \in DOMAIN b : Permits(c, x, "contains") /\ b[x].kind \notin {"str", "arr"}}}
     \cup {<<"Custom validation failed for contains(">> \o f \o <<")">> :
             f \in {x \in DOMAIN b : Permits(c, x, "contains") /\ Rejects(c, x, "contains")}}

RangeViolations(o, c) ==
  LET b == BucketOf(o, "range")
      ok == {x \in DOMAIN b : PermitsRange(c, x)}
  IN {NotAllowedText(f, "range") : f \in DOMAIN b \ ok}
     \cup UNION {{<<"Invalid range operator for ">> \o f \o <<": ", op>> :
                    op \in {x \in DOMAIN b[f] : x \notin RangeOpNames}} : f \in ok}
     \cup UNION {{<<"Range operator not allowed for ">> \o f \o <<": ", op>> :
                    op \in {x \in DOMAIN b[f] : x \in RangeOpNames /\ ~PermitsSub(c, f, x)}} :
                 f \in ok}
     \cup {<<"between(">> \o f \o <<") requires an array of exactly 2 values">> :
             f \in {x \in ok : Has(b[x], "between") /\ PermitsSub(c, x, "between")
                                 /\ BadArity(b[x].between)}}
     \cup {<<"Custom validation failed for range(">> \o f \o <<")">> :
             f \in {x \in ok : Rejects(c, x, "range")}}

Violations(o, c) ==
  SortViolations(o, c) \cup SearchViolations(o, c)
  \cup (IF NoRules(c) THEN {}
        ELSE EqualsViolations(o, c) \cup ContainsViolations(o, c) \cup RangeViolations(o, c))

\* the entries of a thrown message
EntriesOf(message) == split(Tail(message), "; ", <<>>)

FilterEntries(o) ==
  {[bucket |-> "equals", field |-> f, op |-> "equals"] : f \in DOMAIN BucketOf(o, "equals")}
  \cup
  {[bucket |-> "contains", field |-> f, op |-> "contains"] :
     f \in DOMAIN BucketOf(o, "contains")}
  \cup
  UNION {{[bucket |-> "range", field |-> f, op |-> op] : op \in DOMAIN BucketOf(o, "range")[f]} :
           f \in DOMAIN BucketOf(o, "range")}

\* the policy has no rule for the field, or the rule does not permit the operator
Disallowed(c, e) ==
  CASE e.bucket = "equals" -> ~Permits(c, e.field, "equals")
    [] e.bucket = "contains" -> ~Permits(c, e.field, "contains")
    [] OTHER -> ~PermitsSub(c, e.field, e.op)

\* some entry of the thrown message names the field and the operator (for a
\* range entry: the sub-operator, or "range")
Named(r, e) ==
  \E i \in 1..Len(EntriesOf(r.message)) :
     /\ includes(EntriesOf(r.message)[i], e.field)
     /\ \/ includes(EntriesOf(r.message)[i], <<e.op>>)
        \/ includes(EntriesOf(r.message)[i], <<e.bucket>>)

Removed(san, e) ==
  ~(/\ Has(san, "filters")
    /\ Has(san.filters, e.bucket)
    /\ Has(san.filters[e.bucket], e.field)
    /\ e.bucket = "range" => Has(san.filters.range[e.field], e.op))

EntryRejected(r, e) == ~r.ok /\ r.status = 400 /\ Named(r, e) /\ Removed(r.sanitized, e)

\* C4 as stated: every filter entry whose field has no rule, or whose rule
\* does not permit the operator, makes validation fail with an error naming
\* the field and the operator, and is removed from the sanitized filters
C4_Original ==
  Called => \A e \in FilterEntries(opts) : Disallowed(cfg, e) => EntryRejected(vres, e)

\* C4, amended: the same, for policies that have at least one filter rule
C4_DisallowedEntryRejected ==
  (Called /\ ~NoRules(cfg)) =>
     \A e \in FilterEntries(opts) : Disallowed(cfg, e) => EntryRejected(vres, e)

C4_Witness ==
  /\ pc = "rejected"
  /\ ~NoRules(cfg)
  /\ \E e \in FilterEntries(opts) :
        e.bucket = "equals" /\ RuleIndexes(cfg, e.field) = {} /\ EntryRejected(vres, e)
  /\ \E e \in FilterEntries(opts) :
        e.bucket = "contains" /\ Disallowed(cfg, e) /\ EntryRejected(vres, e)
  /\ \E e \in FilterEntries(opts) :
        /\ e.bucket = "range" /\ PermitsRange(cfg, e.field) /\ Disallowed(cfg, e)
        /\ EntryRejected(vres, e)
        /\ Has(vres.sanitized, "filters")
        /\ Has(vres.sanitized.filters, "range")


\* ---- the posts list request
\* C2: the intent that PostController.getPosts hands to
\* PostService.getAllPosts, and that buildSequelizeQuery compiles for the
\* repository, is the sanitized intent returned by validateQueryParams
C2_SanitizedExecuted ==
  pc \in {"service", "querying", "found"} =>
     /\ svcOpts = vres.sanitized
     /\ pc # "service" => plan = buildSequelizeQuery(vres.sanitized)

\* C7: a validation error raised in the posts list handler is answered with
\* status 400 and the validator's message, whatever names and values the
\* message contains
C7_ValidationError400 ==
  (pc = "done" /\ ~vres.ok) =>
     /\ response.status = 400
     /\ response.message = vres.message


\* C11: the query that the posts list endpoint hands to the repository has a
\* limit between 1 and 100, the maxPageSize of the endpoint's policy
C11_PostsLimit ==
  pc \in {"querying", "found"} => (1 <= plan.limit /\ plan.limit <= PostRules.maxPageSize)


\* ---- the plan compiled from an intent
Compiled == pc \in {"compiled", "built"}
\* the intent that was compiled: the sanitized one, or the caller's own
Source == IF pc = "built" THEN opts ELSE vres.sanitized
PaginationOf(o) == IF Has(o, "pagination") THEN o.pagination ELSE EmptyObj
CursorMode(o) == Has(PaginationOf(o), "mode") /\ PaginationOf(o).mode = "cursor"
CursorNodes(w) == {i \in 1..Len(w.and) : w.and[i].kind = "cursor"}

\* sortBy is present and not blocked by an allowlist carried in the intent
SortApplied(o) ==
  /\ Has(o, "sort")
  /\ Truthy(o.sort, "sortBy")
  /\ Has(o.sort, "allowlist") => Includes(o.sort.allowlist, o.sort.sortBy)
DescWords == {<<"DESC">>, <<"desc">>, <<"Desc">>}
NoEntry == [usable |-> FALSE, field |-> <<>>, desc |-> FALSE]
EntryOf(item) ==
  IF item.isArr
  THEN [usable |-> TRUE, field |-> item.elems[1], desc |-> item.elems[2] \in DescWords]
  ELSE NoEntry
SortEntry(o) ==
  [usable |-> TRUE, field |-> o.sort.sortBy,
   desc |-> Has(o.sort, "sortDir") /\ o.sort.sortDir \in DescWords]
\* the first entry of the order in force, the built-in default order counted
FirstEntry(o) ==
  IF SortApplied(o) THEN SortEntry(o)
  ELSE IF ~Has(o, "defaultOrder") THEN EntryOf(OrderPair(<<"created_at">>, <<"DESC">>))
  ELSE IF Len(o.defaultOrder) > 0 THEN EntryOf(o.defaultOrder[1])
  ELSE NoEntry
\* the first entry of the order the caller set: sortBy or the supplied default order
FirstCallerEntry(o) ==
  IF SortApplied(o) THEN SortEntry(o)
  ELSE IF Has(o, "defaultOrder") /\ Len(o.defaultOrder) > 0 THEN EntryOf(o.defaultOrder[1])
  ELSE NoEntry

DirectionOf(o) ==
  IF Has(PaginationOf(o), "direction") THEN PaginationOf(o).direction ELSE <<"next">>
ExpectedCmp(desc, direction) ==
  CASE ~desc /\ direction = <<"next">> -> "gt"
    [] ~desc /\ direction = <<"prev">> -> "lt"
    [] desc /\ direction = <<"next">> -> "lt"
    [] OTHER -> "gt"

\* C12: in cursor mode with a cursor value the cursor comparison is gt for
\* (ascending, next), lt for (ascending, prev), lt for (descending, next) and
\* gt for (descending, prev), the order being the first entry of the order in
\* force; the comparison is against the cursor value
C12_CursorDirection ==
  (Compiled /\ CursorMode(Source) /\ Truthy(PaginationOf(Source), "cursor")
     /\ DirectionOf(Source) \in {<<"next">>, <<"prev">>}) =>
     /\ Has(plan, "cursorClause")
     /\ plan.cursorClause.op = ExpectedCmp(FirstEntry(Source).desc, DirectionOf(Source))
     /\ plan.cursorClause.value = Str(PaginationOf(Source).cursor)

C12_Witness ==
  /\ pc = "compiled"
  /\ CursorMode(Source)
  /\ Has(Source, "defaultOrder")
  /\ ~SortApplied(Source)
  /\ FirstEntry(Source) = [usable |-> TRUE, field |-> Id, desc |-> TRUE]
  /\ DirectionOf(Source) = <<"prev">>
  /\ Has(plan, "cursorClause")
  /\ plan.cursorClause = Leaf(Id, "gt", Str(<<"10">>))

\* the intent of the cursor example: cursor 10, direction next, default order id asc
CursorExample(o) ==
  /\ CursorMode(o)
  /\ ~SortApplied(o)
  /\ Has(o, "defaultOrder")
  /\ o.defaultOrder = <<OrderPair(Id, <<"asc">>)>>
  /\ Truthy(PaginationOf(o), "cursor")
  /\ PaginationOf(o).cursor = <<"10">>
  /\ DirectionOf(o) = <<"next">>
  /\ ~Has(PaginationOf(o), "cursorField")

\* C13 as stated: with no cursorField the cursor comparison is on the sortBy
\* column when sorting is applied, otherwise on the first entry of the
\* caller-supplied default order, and on "id" when there is no such entry
C13_Original ==
  (Compiled /\ CursorMode(Source) /\ Truthy(PaginationOf(Source), "cursor")
     /\ ~Has(PaginationOf(Source), "cursorField")) =>
     plan.cursorClause.field =
        (IF FirstCallerEntry(Source).usable THEN FirstCallerEntry(Source).field ELSE Id)

\* C13, amended: with no cursorField the cursor comparison is on the column of
\* the first entry of the order in force, which is the sortBy column, else the
\* first entry of the supplied default order, else created_at of the built-in
\* default order; it is on "id" only when a default order is supplied whose
\* first entry is not a [column, direction] pair; cursor 10, direction next
\* and default order id asc give id gt 10 and no offset
C13_CursorFieldDefault ==
  (Compiled /\ CursorMode(Source) /\ Truthy(PaginationOf(Source), "cursor")
     /\ ~Has(PaginationOf(Source), "cursorField")) =>
     /\ plan.cursorClause.field =
          (IF FirstEntry(Source).usable THEN FirstEntry(Source).field ELSE Id)
     /\ CursorExample(Source) =>
          (plan.cursorClause = Leaf(Id, "gt", Str(<<"10">>)) /\ ~Has(plan, "offset"))

C13_Witness ==
  /\ pc = "compiled"
  /\ CursorExample(Source)
  /\ plan.cursorClause = Leaf(Id, "gt", Str(<<"10">>))
  /\ plan.order = <<OrderPair(Id, <<"asc">>)>>

\* C14: a plan of cursor mode has no offset and has a cursor comparison
\* exactly when the intent has a non-empty cursor; a plan of offset mode has
\* an offset and no cursor comparison, whatever cursor, cursorField or
\* direction the intent carries
C14_ModesExclusive ==
  Compiled =>
    IF CursorMode(Source)
    THEN /\ ~Has(plan, "offset")
         /\ Has(plan, "cursorClause") <=> Truthy(PaginationOf(Source), "cursor")
         /\ Cardinality(CursorNodes(plan.where))
              = (IF Truthy(PaginationOf(Source), "cursor") THEN 1 ELSE 0)
    ELSE /\ Has(plan, "offset")
         /\ ~Has(plan, "cursorClause")
         /\ CursorNodes(plan.where) = {}

C14_Witness ==
  /\ pc = "compiled"
  /\ ~CursorMode(Source)
  /\ Truthy(PaginationOf(Source), "cursor")
  /\ Has(PaginationOf(Source), "cursorField")
  /\ plan.offset = 3
  /\ ~Has(plan, "cursorClause")


\* C15: for an offset-mode intent that validation accepted, the plan's limit
\* is the sanitized pageSize and its offset is (page - 1) * pageSize, under
\* every policy
C15_OffsetArithmetic ==
  (pc = "compiled" /\ Has(opts, "pagination") /\ ~CursorMode(opts)) =>
     LET p == vres.sanitized.pagination
     IN /\ plan.limit = p.pageSize
        /\ plan.offset = (p.page - 1) * p.pageSize


\* ---- sort and search against the policy
Member(seq, x) == \E i \in 1..Len(seq) : seq[i] = x
Entries(r) == IF r.ok THEN {} ELSE {EntriesOf(r.message)[i] : i \in 1..Len(EntriesOf(r.message))}
SortByOf(o) == IF Has(o, "sort") /\ Truthy(o.sort, "sortBy") THEN o.sort.sortBy ELSE <<>>
WithoutSortBy(o) == [o EXCEPT !.sort = Del(@, "sortBy")]

\* C16: a non-empty sortBy that is not in the policy's sortColumns, a policy
\* without sortColumns included, makes validation fail with an error for that
\* column; a sortBy that is in sortColumns raises no error and leaves the
\* outcome what it is for the same intent without sortBy
C16_SortColumnPolicy ==
  (Called /\ SortByOf(opts) # <<>>) =>
     IF Has(cfg, "sortColumns") /\ Member(cfg.sortColumns, SortByOf(opts))
     THEN /\ (<<"Invalid sort column: ">> \o SortByOf(opts)) \notin Entries(vres)
          /\ vres.ok = validateQueryParams(WithoutSortBy(opts), cfg).ok
          /\ vres.ok => vres.sanitized.sort.sortBy = SortByOf(opts)
     ELSE /\ ~vres.ok
          /\ vres.status = 400
          /\ (<<"Invalid sort column: ">> \o SortByOf(opts)) \in Entries(vres)

C16_Witness ==
  /\ pc = "rejected"
  /\ ~Has(cfg, "sortColumns")
  /\ SortByOf(opts) = Title
  /\ Entries(vres) = {<<"Invalid sort column: ", "title">>}

\* the lower-case form of a direction
CanonDir(d) ==
  CASE d \in {<<"ASC">>, <<"Asc">>} -> <<"asc">>
    [] d \in {<<"DESC">>, <<"Desc">>} -> <<"desc">>
    [] d = <<"UP">> -> <<"up">>
    [] OTHER -> d
SortDirOf(o) == IF Has(o, "sort") /\ Truthy(o.sort, "sortDir") THEN o.sort.sortDir ELSE <<>>

\* C17: a non-empty sortDir whose lower-case form is not in the policy's
\* sortDir list, or is neither asc nor desc, makes validation fail with an
\* error for that direction; otherwise it raises no error and the sanitized
\* sortDir is the lower-case form of the input
C17_SortDirCanonical ==
  (Called /\ SortDirOf(opts) # <<>>) =>
     LET dir == CanonDir(SortDirOf(opts))
         bad == \/ Has(cfg, "sortDir") /\ ~Member(cfg.sortDir, dir)
                \/ dir \notin {<<"asc">>, <<"desc">>}
         text == <<"Invalid sort direction: ">> \o SortDirOf(opts)
     IN IF bad
        THEN ~vres.ok /\ vres.status = 400 /\ text \in Entries(vres)
        ELSE /\ text \notin Entries(vres)
             /\ vres.sanitized.sort.sortDir = dir

C17_Witness ==
  /\ pc = "validated"
  /\ Has(cfg, "sortDir")
  /\ SortDirOf(opts) = <<"DESC">>
  /\ vres.sanitized.sort.sortDir = <<"desc">>

\* C18: with a non-empty q and a policy with searchColumns, an intent with no
\* search columns gets the policy's searchColumns, and an intent with columns
\* outside the policy fails with one error that lists every such column in
\* the order of the request; a successful validation leaves no search column
\* outside the policy's searchColumns
C18_SearchColumns ==
  Called =>
    /\ (Has(opts, "search") /\ Truthy(opts.search, "q")
          /\ Has(cfg, "searchColumns") /\ Len(cfg.searchColumns) > 0) =>
         LET requested == IF Has(opts.search, "columns") THEN opts.search.columns ELSE <<>>
             invalid == SelectSeq(requested, LAMBDA x : ~Member(cfg.searchColumns, x))
         IN /\ Len(requested) = 0 => vres.sanitized.search.columns = cfg.searchColumns
            /\ Len(invalid) > 0 =>
                 /\ ~vres.ok
                 /\ vres.status = 400
                 /\ (<<"Invalid search columns: ">> \o join(invalid, <<", ">>)) \in Entries(vres)
            /\ Len(invalid) = 0 =>
                 \A e \in Entries(vres) : Head(e) # "Invalid search columns: "
    /\ (vres.ok /\ Has(vres.sanitized, "search") /\ Has(vres.sanitized.search, "columns")) =>
         \A i \in 1..Len(vres.sanitized.search.columns) :
            /\ Has(cfg, "searchColumns")
            /\ Member(cfg.searchColumns, vres.sanitized.search.columns[i])

C18_Witness ==
  /\ pc = "rejected"
  /\ Has(opts, "search")
  /\ Has(opts.search, "columns")
  /\ opts.search.columns = <<Secret, Id>>
  /\ cfg.searchColumns = <<Title, Body>>
  /\ <<"Invalid search columns: ", "secret", ", ", "id">> \in Entries(vres)


\* ---- range filters
RangeFields(o) == DOMAIN BucketOf(o, "range")
RangeOf(o, f) == BucketOf(o, "range")[f]
Kept(san, f, op) ==
  /\ Has(san, "filters")
  /\ Has(san.filters, "range")
  /\ Has(san.filters.range, f)
  /\ Has(san.filters.range[f], op)
NamesField(r, f) == \E e \in Entries(r) : includes(e, f)

\* each sub-operator of a field the rule allows range filters on is judged on
\* its own: reported and removed when the rule does not allow it, kept with
\* its value when the rule allows it and the value is well-formed
SubOperatorsIndependent(o, c, r) ==
  \A f \in {x \in RangeFields(o) : PermitsRange(c, x)} :
     \A op \in DOMAIN RangeOf(o, f) \cap RangeOpNames :
        IF ~PermitsSub(c, f, op)
        THEN /\ ~r.ok
             /\ (<<"Range operator not allowed for ">> \o f \o <<": ", op>>) \in Entries(r)
             /\ ~Kept(r.sanitized, f, op)
        ELSE IF op = "between" /\ BadArity(RangeOf(o, f)[op])
        THEN ~Kept(r.sanitized, f, op)
        ELSE /\ Kept(r.sanitized, f, op)
             /\ r.sanitized.filters.range[f][op] = RangeOf(o, f)[op]
             /\ \A e \in Entries(r) : ~(includes(e, f) /\ includes(e, <<op>>))

\* a between that does not hold exactly two values fails with an error naming the field
BadBetweenRejected(o, r) ==
  \A f \in RangeFields(o) :
     (Has(RangeOf(o, f), "between") /\ BadArity(RangeOf(o, f).between)) =>
        (~r.ok /\ r.status = 400 /\ NamesField(r, f))

\* C19 as stated: the sub-operators of a range filter are checked one by one
\* against the rule, and a between without exactly two values makes
\* validation fail with an error naming the field, under every policy
C19_Original ==
  Called => (SubOperatorsIndependent(opts, cfg, vres) /\ BadBetweenRejected(opts, vres))

\* C19, amended: the same under policies that have at least one filter rule;
\* with no filter rule the range filters are removed without an error
C19_RangeSubOperators ==
  (Called /\ ~NoRules(cfg)) =>
     (SubOperatorsIndependent(opts, cfg, vres) /\ BadBetweenRejected(opts, vres))

C19_Witness ==
  /\ pc = "rejected"
  /\ ~NoRules(cfg)
  /\ PermitsSub(cfg, Title, "gte")
  /\ ~PermitsSub(cfg, Title, "lt")
  /\ Title \in RangeFields(opts)
  /\ DOMAIN RangeOf(opts, Title) = {"gte", "lt"}
  /\ Kept(vres.sanitized, Title, "gte")
  /\ ~Kept(vres.sanitized, Title, "lt")
  /\ <<"Range operator not allowed for ", "title", ": ", "lt">> \in Entries(vres)


\* ---- the parser's filter buckets
Reserved == {<<"page">>, <<"pageSize">>, <<"sortBy">>, <<"sortDir">>, <<"q">>,
             <<"cursor">>, <<"cursorField">>, <<"direction">>, <<"mode">>}
SubOp(t) ==
  CASE t = "[gte]" -> "gte"
    [] t = "[lte]" -> "lte"
    [] t = "[gt]" -> "gt"
    [] t = "[lt]" -> "lt"
    [] t = "[between]" -> "between"
    [] t = "[contains]" -> "contains"
    [] OTHER -> ""
\* the key ends in one of the six bracket suffixes, after a non-empty field
Bracketed(k) == Len(k) >= 2 /\ SubOp(k[Len(k)]) # ""
FieldOf(k) == SubSeq(k, 1, Len(k) - 1)
ParsedBucket(o, b) ==
  IF Has(o, "filters") /\ Has(o.filters, b) THEN o.filters[b] ELSE EmptyObj

\* the bucket entry that a request parameter is to end in
Routed(o, e) ==
  IF e.key \in Reserved THEN TRUE
  ELSE IF ~Bracketed(e.key)
  THEN Has(ParsedBucket(o, "equals"), e.key) /\ ParsedBucket(o, "equals")[e.key] = e.value
  ELSE IF SubOp(e.key[Len(e.key)]) = "contains"
  THEN /\ Has(ParsedBucket(o, "contains"), FieldOf(e.key))
       /\ ParsedBucket(o, "contains")[FieldOf(e.key)] = e.value
  ELSE /\ Has(ParsedBucket(o, "range"), FieldOf(e.key))
       /\ Has(ParsedBucket(o, "range")[FieldOf(e.key)], SubOp(e.key[Len(e.key)]))
       /\ SubOp(e.key[Len(e.key)]) # "between" =>
            ParsedBucket(o, "range")[FieldOf(e.key)][SubOp(e.key[Len(e.key)])] = e.value

\* C20: every parameter of the request whose key is not reserved is in the
\* bucket its key calls for: contains or range (under the field, with the
\* sub-operator) for a key with one of the six bracket suffixes, equals under
\* the whole key otherwise; the buckets hold nothing else and no reserved key
C20_ParserBuckets ==
  pc # "handler" =>
    /\ \A i \in 1..Len(query) : Routed(opts, query[i])
    /\ DOMAIN ParsedBucket(opts, "equals")
         = {query[i].key : i \in {j \in 1..Len(query) :
                                    query[j].key \notin Reserved /\ ~Bracketed(query[j].key)}}
    /\ DOMAIN ParsedBucket(opts, "contains") \cup DOMAIN ParsedBucket(opts, "range")
         = {FieldOf(query[i].key) : i \in {j \in 1..Len(query) :
                                             query[j].key \notin Reserved /\ Bracketed(query[j].key)}}
    /\ \A b \in {"equals", "contains", "range"} : DOMAIN ParsedBucket(opts, b) \cap Reserved = {}


\* ---- the parser on the requests to the posts list
Parsed == pc # "handler" /\ pc # "request" /\ query # <<>>
\* the text of a request parameter, <<>> when the request does not carry it
ParamText(q, name) ==
  IF \E i \in 1..Len(q) : q[i].key = <<name>>
  THEN (q[CHOOSE i \in 1..Len(q) : q[i].key = <<name>>]).value.items[1]
  ELSE <<>>
BetweenParams(q) == {i \in 1..Len(q) : Bracketed(q[i].key) /\ SubOp(q[i].key[Len(q[i].key)]) = "between"}
Commas(text) == Cardinality({i \in 1..Len(text) : text[i] = ","})
\* the between entry holds the pieces of the value between its commas
CommaSplit(entry, text) ==
  /\ entry.kind = "arr"
  /\ join(entry.items, <<",">>) = text
  /\ \A i \in 1..Len(entry.items) : Commas(entry.items[i]) = 0

\* C21 as stated: the between entry of every field[between] key holds exactly
\* two strings, the pieces of the value split on commas
C21_Original ==
  Parsed =>
    \A i \in BetweenParams(query) :
       LET entry == opts.filters.range[FieldOf(query[i].key)].between
       IN CommaSplit(entry, query[i].value.items[1]) /\ Len(entry.items) = 2

\* C21, amended: the between entry holds the pieces of the value split on
\* commas, one more than the value has commas; they are two exactly when the
\* value has one comma
C21_BetweenSplit ==
  Parsed =>
    \A i \in BetweenParams(query) :
       LET entry == opts.filters.range[FieldOf(query[i].key)].between
       IN /\ CommaSplit(entry, query[i].value.items[1])
          /\ Len(entry.items) = Commas(query[i].value.items[1]) + 1

C21_Witness ==
  /\ pc = "parsed"
  /\ BetweenParams(query) # {}
  /\ Has(opts.filters, "range")
  /\ opts.filters.range[<<"createdAt">>].between = Arr(<<<<"1">>, <<"5">>, <<"9">>>>)

\* Number(text) || fallback, for the numerals of the requests
Lenient(text, fallback) ==
  CASE text = <<"2">> -> 2
    [] text = <<"3">> -> 3
    [] text = <<"150">> -> 150
    [] text = <<"9999">> -> 9999
    [] OTHER -> fallback

\* C22: parsing always yields an intent; a page that is missing, non-numeric
\* or zero becomes 1, a pageSize that is missing, non-numeric or zero becomes
\* 20, other numerals are taken as they are; cursor pagination exactly when
\* mode is "cursor", offset pagination otherwise
C22_LenientDefaults ==
  Parsed =>
    /\ Has(opts, "pagination") /\ Has(opts, "sort") /\ Has(opts, "filters")
    /\ opts.pagination.pageSize = Lenient(ParamText(query, "pageSize"), 20)
    /\ IF ParamText(query, "mode") = <<"cursor">>
       THEN opts.pagination.mode = "cursor" /\ ~Has(opts.pagination, "page")
       ELSE /\ opts.pagination.mode = "offset"
            /\ opts.pagination.page = Lenient(ParamText(query, "page"), 1)
            /\ DOMAIN opts.pagination = {"mode", "page", "pageSize"}

C22_Witness ==
  /\ pc = "parsed"
  /\ ParamText(query, "mode") = <<"keyset">>
  /\ ParamText(query, "page") = <<"0">>
  /\ ParamText(query, "pageSize") = <<"abc">>
  /\ opts.pagination = [mode |-> "offset", page |-> 1, pageSize |-> 20]

\* C30: every range key of the request (gte, lte, gt, lt, between) has its
\* sub-operator in the range bucket of its field, in whatever order the keys
\* of one field come
C30_RangeKeyOrder ==
  Parsed =>
    \A i \in {j \in 1..Len(query) :
                Bracketed(query[j].key) /\ SubOp(query[j].key[Len(query[j].key)]) # "contains"} :
       /\ Has(ParsedBucket(opts, "range"), FieldOf(query[i].key))
       /\ Has(ParsedBucket(opts, "range")[FieldOf(query[i].key)],
              SubOp(query[i].key[Len(query[i].key)]))


\* ---- end-to-end scenarios
Scenario1 ==
  <<Param(<<"sortBy">>, Str(Title)), Param(<<"sortDir">>, Str(<<"desc">>)),
    Param(<<"userId", "[equals]">>, Str(<<"3">>))>>
Policy1 ==
  [sortColumns |-> <<Title>>, filters |-> <<Rule(<<"userId">>, [equals |-> TRUE])>>]

\* C23: the request sortBy=title, sortDir=desc, userId[equals]=3, parsed and
\* validated under sortColumns [title] and a rule allowing equals on userId,
\* passes validation and compiles to order [(title, desc)] and the
\* predicate userId = 3
C23_Scenario1 ==
  (query = Scenario1 /\ cfg = Policy1) =>
     /\ Called => vres.ok
     /\ pc = "compiled" =>
          /\ Len(plan.order) = 1
          /\ plan.order[1].elems[1] = Title
          /\ plan.order[1].elems[2] \in DescWords
          /\ DOMAIN plan.where.fields = {<<"userId">>}
          /\ plan.where.fields[<<"userId">>].scalar
          /\ plan.where.fields[<<"userId">>].val = Str(<<"3">>)


SecretParam == Param(<<"secret", "[equals]">>, Str(<<"x">>))
Carries(q, e) == \E i \in 1..Len(q) : q[i] = e
Mentions(message, f, op) == includes(message, f) /\ includes(message, <<op>>)

\* C24: a request to the posts list that carries secret[equals]=x, a field
\* with no rule, is answered with the validation error (status 400 at the
\* throw) whose message mentions secret and equals; no plan is compiled and
\* the repository is not queried for it
C24_Scenario3 ==
  Carries(query, SecretParam) =>
     /\ pc \notin {"service", "querying", "found"}
     /\ plan = EmptyObj
     /\ svcOpts = EmptyObj
     /\ pc \in {"thrown", "next", "done"} =>
          /\ ~vres.ok
          /\ error = ApiError(vres.message, 400)
          /\ Mentions(error.message, <<"secret">>, "equals")
     /\ pc = "done" =>
          /\ ~response.success
          /\ response.status >= 400
          /\ response.message = vres.message

C24_Witness ==
  /\ pc = "done"
  /\ query = <<SecretParam>>
  /\ plan = EmptyObj
  /\ response.status = 400
  /\ response.message =
       <<"Failed to validate request: ", "Filtering not allowed on field \"",
         "secret", "[equals]", "\" with operator \"", "equals", "\"">>


\* ---- the where-clause against the components of the sanitized intent
NonEmpty(v) == SelectSeq(v.items, LAMBDA x : x # <<>>)
\* the contains entries that have a value to match
Matching(o) == {f \in DOMAIN BucketOf(o, "contains") : Len(NonEmpty(BucketOf(o, "contains")[f])) > 0}
Searching(o) ==
  /\ Has(o, "search")
  /\ Truthy(o.search, "q")
  /\ Has(o.search, "columns")
  /\ Len(o.search.columns) > 0
Paging(o) == CursorMode(o) /\ Truthy(PaginationOf(o), "cursor")
RangeLeaves(o) ==
  UNION {{[field |-> f, op |-> op] : op \in DOMAIN BucketOf(o, "range")[f]} :
           f \in DOMAIN BucketOf(o, "range")}
\* the OR-group of the where-clause for a contains entry
GroupFor(w, f, n) ==
  \E i \in 1..Len(w.and) :
     /\ w.and[i].kind = "or"
     /\ Len(w.and[i].pieces) = n
     /\ \A j \in 1..n : w.and[i].pieces[j].field = f /\ w.and[i].pieces[j].op \in {"like", "iLike"}

EqualsPresent(o, w) ==
  \A f \in DOMAIN BucketOf(o, "equals") :
     /\ Has(w.fields, f)
     /\ IF BucketOf(o, "equals")[f].kind \in {"arr", "objarr"}
        THEN /\ ~w.fields[f].scalar
             /\ Has(w.fields[f].ops, "in")
             /\ w.fields[f].ops["in"] = BucketOf(o, "equals")[f]
        ELSE w.fields[f].scalar /\ w.fields[f].val = BucketOf(o, "equals")[f]
ContainsPresent(o, w) ==
  \A f \in Matching(o) : GroupFor(w, f, Len(NonEmpty(BucketOf(o, "contains")[f])))
RangePresent(o, w) ==
  \A l \in RangeLeaves(o) :
     /\ Has(w.fields, l.field)
     /\ ~w.fields[l.field].scalar
     /\ Has(w.fields[l.field].ops, l.op)
     /\ w.fields[l.field].ops[l.op] = BucketOf(o, "range")[l.field][l.op]
SearchPresent(o, w) ==
  Searching(o) =>
     \E i \in 1..Len(w.and) :
        /\ w.and[i].kind = "or"
        /\ Len(w.and[i].pieces) = Len(o.search.columns)
        /\ \A j \in 1..Len(o.search.columns) : w.and[i].pieces[j].field = o.search.columns[j]
NothingElse(o, w) ==
  /\ Len(w.and) = Cardinality(Matching(o)) + (IF Searching(o) THEN 1 ELSE 0)
                    + (IF Paging(o) THEN 1 ELSE 0)
  /\ DOMAIN w.fields = DOMAIN BucketOf(o, "equals") \cup {l.field : l \in RangeLeaves(o)}
  /\ \A f \in DOMAIN w.fields :
        ~w.fields[f].scalar =>
           DOMAIN w.fields[f].ops \subseteq
              {"in"} \cup {l.op : l \in {x \in RangeLeaves(o) : x.field = f}}

\* C25: the where-clause compiled from a sanitized intent holds every equals
\* entry, an OR-group for every contains entry, every range sub-operator,
\* the search OR-group and the cursor comparison, also when an equals and a
\* range filter are on the same field, and it holds nothing else
C25_AllComponents ==
  pc = "compiled" =>
     /\ EqualsPresent(vres.sanitized, plan.where)
     /\ ContainsPresent(vres.sanitized, plan.where)
     /\ RangePresent(vres.sanitized, plan.where)
     /\ SearchPresent(vres.sanitized, plan.where)
     /\ Paging(vres.sanitized) => Cardinality(CursorNodes(plan.where)) = 1
     /\ NothingElse(vres.sanitized, plan.where)


\* ---- like and iLike
DialectOf(o) ==
  IF Has(o, "search") /\ Has(o.search, "dialect") THEN o.search.dialect ELSE ""
LikeFor(dialect) == IF dialect = "postgres" THEN "iLike" ELSE "like"
\* the leaves of the OR-groups of a where-clause
GroupLeaves(w) ==
  UNION {{w.and[i].pieces[j] : j \in 1..Len(w.and[i].pieces)} :
           i \in {k \in 1..Len(w.and) : w.and[k].kind = "or"}}

\* C26: the leaves compiled for contains filters and for search use iLike
\* exactly when the dialect passed with the intent is postgres, whether or
\* not the intent has a search term q; a list of contains values becomes an
\* OR-group with one leaf per value
C26_DialectOnly ==
  pc = "compiled" =>
     /\ \A l \in GroupLeaves(plan.where) : l.op = LikeFor(DialectOf(opts))
     /\ ContainsPresent(vres.sanitized, plan.where)


\* ---- the order of the plan
DefaultOrderOf(o) ==
  IF Has(o, "defaultOrder") THEN o.defaultOrder
  ELSE <<OrderPair(<<"created_at">>, <<"DESC">>)>>
SortDirGiven(o) == IF Has(o.sort, "sortDir") THEN o.sort.sortDir ELSE <<"asc">>
\* the order is the single entry (sortBy, sortDir), the direction in any case
OrderIsSort(order, o) ==
  /\ Len(order) = 1
  /\ order[1].isArr
  /\ order[1].elems[1] = o.sort.sortBy
  /\ CanonDir(order[1].elems[2]) = CanonDir(SortDirGiven(o))

\* C27: when the compiled intent has a non-empty sortBy the plan's order is
\* [(sortBy, sortDir)], otherwise it is the supplied default order or, with
\* none supplied, the built-in one; for the intent as the parser or the
\* caller made it and for its sanitized copy
C27_SortCompiled ==
  Compiled =>
     IF SortByOf(Source) # <<>>
     THEN OrderIsSort(plan.order, Source)
     ELSE plan.order = DefaultOrderOf(Source)

\* C28: for a cursor-mode intent that validation accepted, the field of the
\* compiled cursor comparison is one of the policy's sortColumns or the
\* first field of the order the server supplies
C28_CursorFieldAllowed ==
  (pc = "compiled" /\ CursorMode(vres.sanitized) /\ Has(plan, "cursorClause")) =>
     \/ Has(cfg, "sortColumns") /\ Member(cfg.sortColumns, plan.cursorClause.field)
     \/ plan.cursorClause.field = ServerOrderField(opts)

\* Math.ceil(n / d) for n >= 0 and d > 0
CeilOf(n, d) == (n + d - 1) \div d

\* C29: the meta block of a successful posts list answer has the limit of
\* the executed query as pageSize and ceil(totalItems / limit) as totalPages
C29_MetaConsistent ==
  (pc = "done" /\ response.success) =>
     /\ response.meta.totalItems = count
     /\ response.meta.pageSize = plan.limit
     /\ response.meta.totalPages = CeilOf(count, plan.limit)

====
